---- MODULE Spec2Model ----
(***************************************************************************)
(* Stiebel Eltron ISG scraping client (scrapper.py), its localization      *)
(* table (const.py) and the data update coordinator (coordinator.py).      *)
(*                                                                         *)
(* Texts (cell texts, titles, labels) are sequences of one-character       *)
(* strings; language names and dictionary keys are strings.  A call that   *)
(* may raise yields Return(v) or Raise(e).                                 *)
(***************************************************************************)
EXTENDS Integers, Sequences, FiniteSets, TLC

(***************************************************************************)
(* Python values and exceptions                                            *)
(***************************************************************************)
\* Every value that may be None is a record, so that it compares with None.
None == [none |-> TRUE]

Return(v) == [ok |-> TRUE, value |-> v]

Raise(e) == [ok |-> FALSE, exc |-> e]

\* An exception object: its class, its message (a sequence of text pieces)
\* and its __cause__ (set by "raise ... from ...").
Exc(type, msg, cause) == [type |-> type, msg |-> msg, cause |-> cause]

StiebelEltronScrapingClientError == "StiebelEltronScrapingClientError"

StiebelEltronScrapingClientCommunicationError == "StiebelEltronScrapingClientCommunicationError"

StiebelEltronScrapingClientAuthenticationError == "StiebelEltronScrapingClientAuthenticationError"

\* The base class of each exception class the client meets.
ExcParent ==
     StiebelEltronScrapingClientAuthenticationError :> StiebelEltronScrapingClientError
  @@ StiebelEltronScrapingClientCommunicationError :> StiebelEltronScrapingClientError
  @@ StiebelEltronScrapingClientError :> "Exception"
  @@ "ValueError" :> "Exception"
  @@ "IndexError" :> "Exception"
  @@ "RuntimeError" :> "Exception"
  @@ "TimeoutError" :> "OSError"
  @@ "socket.gaierror" :> "OSError"
  @@ "OSError" :> "Exception"
  @@ "aiohttp.ClientResponseError" :> "aiohttp.ClientError"
  @@ "aiohttp.ClientConnectionError" :> "aiohttp.ClientError"
  @@ "aiohttp.ClientError" :> "Exception"
  @@ "Exception" :> "object"

RECURSIVE IsSubclass(_, _)
IsSubclass(type, base) ==
  IF type = base THEN TRUE
  ELSE IF type \notin DOMAIN ExcParent THEN FALSE
  ELSE IsSubclass(ExcParent[type], base)

\* "except <classes>" matches the exception e.
Catches(classes, e) == \E c \in classes : IsSubclass(e.type, c)

(***************************************************************************)
(* const.py                                                                *)
(***************************************************************************)
HTTP_CONNECTION_TIMEOUT == 30

EXPECTED_HTML_TITLE == <<"S","T","I","E","B","E","L"," ","E","L","T","R","O","N"," ","R","e","g","l","e","r","s","t","e","u","e","r","u","n","g">>

ICON_ON_SRC == <<"s","t","e","-","s","y","m","b","o","l","_","a","n","-">>

INFO_SYSTEM_PATH == "/?s=1,0"

INFO_HEATPUMP_PATH == "/?s=1,1"

DIAGNOSIS_SYSTEM_STATUS_PATH == "/?s=2,0"

DIAGNOSIS_HEAT_PUMP_STATUS_PATH == "/?s=2,2"

DIAGNOSIS_SYSTEM_PATH == "/?s=2,7"

PROFILE_NETWORK_PATH == "/?s=5,0"

ROOT_PATH == "/"

ROOM_TEMPERATURE_KEY == "room_temperature"

ROOM_HUMIDITY_KEY == "room_relative_humidity"

OUTSIDE_TEMPERATURE_KEY == "outside_temperature"

TOTAL_HEATING_KEY == "total_heating_energy"

TOTAL_POWER_CONSUMPTION_KEY == "total_power_consumption"

HEATING_KEY == "heating_energy"

POWER_CONSUMPTION_KEY == "power_consumption"

FLOW_TEMPERATURE_KEY == "flow_temperature"

TARGET_FLOW_TEMPERATURE_KEY == "target_flow_temperature"

COMPRESSOR_STARTS_KEY == "compressor_starts"

\* A status key that collides with the key of the compressor's starts.
CompressorStatusKeyShared == "compressor_starts"

COMPRESSOR_STATUS_KEY == "compressor_status"

AUXILIARY_HEATER_STATUS_KEY == "auxiliary_heater_status"

BOOSTER_HEATER_1_STATUS_KEY == "booster_heater_1_status"

BOOSTER_HEATER_2_STATUS_KEY == "booster_heater_2_status"

DEFROST_STATUS_KEY == "defrost_status"

MAC_ADDRESS_KEY == "mac_address"

ATTR_SW_VERSION == "sw_version"

ENGLISH_LABELS ==
     "MAJOR_VERSION" :> <<"M","a","j","o","r"," ","v","e","r","s","i","o","n">>
  @@ "MINOR_VERSION" :> <<"M","i","n","o","r"," ","v","e","r","s","i","o","n">>
  @@ "REVISION" :> <<"R","e","v","i","s","i","o","n">>
  @@ "ACTUAL TEMPERATURE 1" :> <<"A","C","T","U","A","L"," ","T","E","M","P","E","R","A","T","U","R","E"," ","1">>
  @@ "RELATIVE HUMIDITY 1" :> <<"R","E","L","A","T","I","V","E"," ","H","U","M","I","D","I","T","Y"," ","1">>
  @@ "OUTSIDE TEMPERATURE" :> <<"O","U","T","S","I","D","E"," ","T","E","M","P","E","R","A","T","U","R","E">>
  @@ "AMOUNT OF HEAT" :> <<"A","M","O","U","N","T"," ","O","F"," ","H","E","A","T">>
  @@ "POWER CONSUMPTION" :> <<"P","O","W","E","R"," ","C","O","N","S","U","M","P","T","I","O","N">>
  @@ "VD HEATING DAY" :> <<"V","D"," ","H","E","A","T","I","N","G"," ","D","A","Y">>
  @@ "VD HEATING TOTAL" :> <<"V","D"," ","H","E","A","T","I","N","G"," ","T","O","T","A","L">>
  @@ "ACTUAL TEMPERATURE HK 1" :> <<"A","C","T","U","A","L"," ","T","E","M","P","E","R","A","T","U","R","E"," ","H","K"," ","1">>
  @@ "SET TEMPERATURE HK 1" :> <<"S","E","T"," ","T","E","M","P","E","R","A","T","U","R","E"," ","H","K"," ","1">>
  @@ "STARTS" :> <<"S","T","A","R","T","S">>
  @@ "COMPRESSOR" :> <<"C","O","M","P","R","E","S","S","O","R">>
  @@ "HEAT PUMP STATUS" :> <<"H","E","A","T"," ","P","U","M","P"," ","S","T","A","T","U","S">>
  @@ "AUXILIARY HEATER" :> <<"A","U","X","I","L","I","A","R","Y"," ","H","E","A","T","E","R">>
  @@ "BOOSTER HEATER STAGE 1" :> <<"B","O","O","S","T","E","R"," ","H","E","A","T","E","R"," ","S","T","A","G","E"," ","1">>
  @@ "BOOSTER HEATER STAGE 2" :> <<"B","O","O","S","T","E","R"," ","H","E","A","T","E","R"," ","S","T","A","G","E"," ","2">>
  @@ "OPERATING MODE" :> <<"O","P","E","R","A","T","I","N","G"," ","M","O","D","E">>
  @@ "DEFROST" :> <<"D","E","F","R","O","S","T">>

DEUTSCH_LABELS ==
     "MAJOR_VERSION" :> <<"H","a","u","p","t","v","e","r","s","i","o","n","s","n","u","m","m","e","r">>
  @@ "MINOR_VERSION" :> <<"N","e","b","e","n","v","e","r","s","i","o","n","s","n","u","m","m","e","r">>
  @@ "REVISION" :> <<"R","e","v","i","s","i","o","n","s","n","u","m","m","e","r">>
  @@ "ACTUAL TEMPERATURE 1" :> <<"I","S","T","T","E","M","P","E","R","A","T","U","R"," ","1">>
  @@ "RELATIVE HUMIDITY 1" :> <<"R","A","U","M","F","E","U","C","H","T","E"," ","1">>
  @@ "OUTSIDE TEMPERATURE" :> <<"A","U","S","S","E","N","T","E","M","P","E","R","A","T","U","R">>
  @@ "AMOUNT OF HEAT" :> <<"W","Ä","R","M","E","M","E","N","G","E">>
  @@ "POWER CONSUMPTION" :> <<"L","E","I","S","T","U","N","G","S","A","U","F","N","A","H","M","E">>
  @@ "VD HEATING DAY" :> <<"V","D"," ","H","E","I","Z","E","N"," ","T","A","G">>
  @@ "VD HEATING TOTAL" :> <<"V","D"," ","H","E","I","Z","E","N"," ","S","U","M","M","E">>
  @@ "ACTUAL TEMPERATURE HK 1" :> <<"I","S","T","T","E","M","P","E","R","A","T","U","R"," ","H","K"," ","1">>
  @@ "SET TEMPERATURE HK 1" :> <<"S","O","L","L","T","E","M","P","E","R","A","T","U","R"," ","H","K"," ","1">>
  @@ "STARTS" :> <<"S","T","A","R","T","S">>
  @@ "COMPRESSOR" :> <<"V","E","R","D","I","C","H","T","E","R">>
  @@ "HEAT PUMP STATUS" :> <<"S","T","A","T","U","S"," ","W","Ä","R","M","E","P","U","M","P","E">>
  @@ "AUXILIARY HEATER" :> <<"B","E","G","L","E","I","T","H","E","I","Z","U","N","G">>
  @@ "BOOSTER HEATER STAGE 1" :> <<"N","H","Z"," ","S","T","U","F","E"," ","1">>
  @@ "BOOSTER HEATER STAGE 2" :> <<"N","H","Z"," ","S","T","U","F","E"," ","2">>
  @@ "OPERATING MODE" :> <<"B","E","T","R","I","E","B","S","S","T","A","T","U","S">>
  @@ "DEFROST" :> <<"A","B","T","A","U","E","N">>

\* A value of the FIELDS_I18N dictionary: a dict of labels, or a str.
Dict(d) == [isdict |-> TRUE, items |-> d]

Str(s) == [isdict |-> FALSE, str |-> s]

FIELDS_I18N ==
     "ENGLISH" :> Dict(ENGLISH_LABELS)
  @@ "DEUTSCH" :> Dict(DEUTSCH_LABELS)
  @@ "FRANÇAIS" :> Str("TODO")
  @@ "NEDERLANDS" :> Str("TODO")
  @@ "ITALIANO" :> Str("TODO")
  @@ "SVENSKA" :> Str("TODO")
  @@ "POLSKI" :> Str("TODO")
  @@ "CESTINA" :> Str("TODO")   \* the source writes it with its carons
  @@ "MAGYAR" :> Str("TODO")
  @@ "ESPAÑOL" :> Str("TODO")
  @@ "SUOMI" :> Str("TODO")
  @@ "DANSK" :> Str("TODO")

(***************************************************************************)
(* scrapper.py: localization lookup                                        *)
(***************************************************************************)
\* dict.get(key): the value, or None.
DictGet(d, key) == IF key \in DOMAIN d THEN d[key] ELSE None

UnsupportedLanguage(language) ==
  Raise(Exc("ValueError", <<"Unsupported language for i18n: ", language>>, None))

\* A lookup without the isinstance test: "TODO".get is an AttributeError.
GetFieldI18nNoIsinstance(field_key, language) ==
  LET lang_dict == DictGet(FIELDS_I18N, language)
  IN IF lang_dict = None THEN UnsupportedLanguage(language)
     ELSE IF ~lang_dict.isdict
       THEN Raise(Exc("AttributeError", <<"'str' object has no attribute 'get'">>, None))
     ELSE IF field_key \in DOMAIN lang_dict.items /\ lang_dict.items[field_key] /= <<>>
       THEN Return(lang_dict.items[field_key])
     ELSE UnsupportedLanguage(language)

_get_field_i18n(field_key, language) ==
  LET lang_dict == DictGet(FIELDS_I18N, language)
  IN IF lang_dict /= None /\ lang_dict.isdict
       THEN IF field_key \in DOMAIN lang_dict.items /\ lang_dict.items[field_key] /= <<>>
              THEN Return(lang_dict.items[field_key])
              ELSE UnsupportedLanguage(language)
       ELSE UnsupportedLanguage(language)

(***************************************************************************)
(* Text operations (str methods) on sequences of characters                *)
(***************************************************************************)
IsPrefix(p, s) == Len(p) <= Len(s) /\ SubSeq(s, 1, Len(p)) = p

\* "sub in s"
Contains(s, sub) == \E i \in 0..(Len(s) - Len(sub)) : SubSeq(s, i + 1, i + Len(sub)) = sub

\* s.replace(old, new): every occurrence, left to right, without overlap.
RECURSIVE Replace(_, _, _)
Replace(s, old, new) ==
  IF s = <<>> THEN <<>>
  ELSE IF IsPrefix(old, s) THEN new \o Replace(SubSeq(s, Len(old) + 1, Len(s)), old, new)
  ELSE <<Head(s)>> \o Replace(Tail(s), old, new)

Whitespace == {" ", "\t", "\n"}

RECURSIVE LStrip(_)
LStrip(s) == IF s /= <<>> /\ Head(s) \in Whitespace THEN LStrip(Tail(s)) ELSE s

RECURSIVE RStrip(_)
RStrip(s) ==
  IF s /= <<>> /\ s[Len(s)] \in Whitespace THEN RStrip(SubSeq(s, 1, Len(s) - 1)) ELSE s

\* s.strip()
Strip(s) == LStrip(RStrip(s))

(***************************************************************************)
(* float: a finite value is a decimal number, digits / 10^decs, negative   *)
(* when neg; kept normal (no trailing fractional zero, no negative zero)   *)
(* so that equal numbers are equal values.  Binary rounding is left out.   *)
(* The other values are the infinities and nan.                            *)
(***************************************************************************)
RECURSIVE Normal(_, _, _)
Normal(neg, digits, decs) ==
  IF decs > 0 /\ digits % 10 = 0 THEN Normal(neg, digits \div 10, decs - 1)
  ELSE [neg |-> neg /\ digits /= 0, digits |-> digits, decs |-> decs]

Float(digits, decs) == Normal(FALSE, digits, decs)

Inf(neg) == [inf |-> TRUE, neg |-> neg]

NaN == [nan |-> TRUE]

IsFinite(x) == "digits" \in DOMAIN x

DigitValue ==
  "0" :> 0 @@ "1" :> 1 @@ "2" :> 2 @@ "3" :> 3 @@ "4" :> 4 @@
  "5" :> 5 @@ "6" :> 6 @@ "7" :> 7 @@ "8" :> 8 @@ "9" :> 9

IsDigits(s) == \A i \in 1..Len(s) : s[i] \in DOMAIN DigitValue

RECURSIVE DigitsToInt(_, _)
DigitsToInt(s, acc) ==
  IF s = <<>> THEN acc ELSE DigitsToInt(Tail(s), acc * 10 + DigitValue[Head(s)])

\* A digit part of a float literal: digits, with single underscores allowed
\* between two digits.  The empty text is one (where the grammar allows it).
IsDigitPart(s) ==
  \A i \in 1..Len(s) :
    \/ s[i] \in DOMAIN DigitValue
    \/ /\ s[i] = "_"
       /\ 1 < i
       /\ i < Len(s)
       /\ s[i - 1] \in DOMAIN DigitValue
       /\ s[i + 1] \in DOMAIN DigitValue

DigitPart(s) == SelectSeq(s, LAMBDA c : c /= "_")

RECURSIVE Pow10(_)
Pow10(n) == IF n = 0 THEN 1 ELSE 10 * Pow10(n - 1)

\* The letters of "infinity" and "nan", which float reads in either case.
LowerCase ==
  "I" :> "i" @@ "N" :> "n" @@ "F" :> "f" @@ "T" :> "t" @@ "Y" :> "y" @@ "A" :> "a"

Lower(s) == [i \in 1..Len(s) |-> IF s[i] \in DOMAIN LowerCase THEN LowerCase[s[i]] ELSE s[i]]

FloatValueError == Raise(Exc("ValueError", <<"could not convert string to float">>, None))

\* The only element of a one-element set.  {F(x) : x \in {e}} computes e
\* once, however often F uses x.
The(S) == CHOOSE x \in S : TRUE

\* The number neg digits * 10^(-decs), decs of either sign.
Scaled(neg, digits, decs) ==
  IF decs >= 0 THEN Normal(neg, digits, decs)
  ELSE Normal(neg, digits * Pow10(0 - decs), 0)

\* The value of an exponent part: an optional sign and a digit part.
Exponent(s) ==
  LET signed == s /= <<>> /\ Head(s) \in {"+", "-"}
  IN The({IF body = <<>> \/ ~IsDigitPart(body) THEN FloatValueError
          ELSE Return(IF signed /\ Head(s) = "-"
                        THEN 0 - DigitsToInt(DigitPart(body), 0)
                        ELSE DigitsToInt(DigitPart(body), 0))
            : body \in {IF signed THEN Tail(s) ELSE s}})

\* The first index from i on at which s has a character of cs; Len(s) + 1
\* when there is none.
RECURSIVE FirstIn(_, _, _)
FirstIn(s, cs, i) ==
  IF i > Len(s) THEN i ELSE IF s[i] \in cs THEN i ELSE FirstIn(s, cs, i + 1)

\* A decimal literal: digit parts around at most one point, at least one
\* digit; exp is what the exponent part gave.
Decimal(neg, mantissa, exp) ==
  The({The({IF /\ IsDigitPart(whole)
               /\ IsDigitPart(frac)
               /\ Len(whole) + Len(frac) > 0
               /\ exp.ok
              THEN Return(Scaled(neg, DigitsToInt(DigitPart(whole) \o DigitPart(frac), 0),
                                 Len(DigitPart(frac)) - exp.value))
              ELSE FloatValueError
             : frac \in {SubSeq(mantissa, dot + 1, Len(mantissa))},
               whole \in {SubSeq(mantissa, 1, dot - 1)}})
        : dot \in {FirstIn(mantissa, {"."}, 1)}})

\* The text after the sign: "inf", "infinity" or "nan" in any case, or a
\* decimal literal with an optional exponent.
FloatUnsigned(neg, body) ==
  IF Lower(body) \in {<<"i", "n", "f">>, <<"i", "n", "f", "i", "n", "i", "t", "y">>}
    THEN Return(Inf(neg))
  ELSE IF Lower(body) = <<"n", "a", "n">> THEN Return(NaN)
  ELSE The({The({Decimal(neg, mantissa, exp)
                  : mantissa \in {SubSeq(body, 1, e - 1)},
                    exp \in {IF e > Len(body) THEN Return(0)
                             ELSE Exponent(SubSeq(body, e + 1, Len(body)))}})
             : e \in {FirstIn(body, {"e", "E"}, 1)}})

\* float(s): surrounding whitespace is ignored; an optional sign; then
\* "inf", "infinity" or "nan" in any case, or a decimal literal (digit parts
\* around at most one point, at least one digit) with an optional exponent.
\* Raises ValueError for every other text of the inputs drawn here (which
\* hold no digit outside ASCII and no exponent float would overflow on).
float(text) ==
  The({The({FloatUnsigned(signed /\ Head(s) = "-", IF signed THEN Tail(s) ELSE s)
             : signed \in {s /= <<>> /\ Head(s) \in {"+", "-"}}})
        : s \in {Strip(text)}})

\* x * 1000
Times1000(x) == IF IsFinite(x) THEN Normal(x.neg, x.digits * 1000, x.decs) ELSE x

(***************************************************************************)
(* scrapper.py: value converters                                           *)
(***************************************************************************)
\* try: return float(value)  except ValueError: return None
FloatOrNone(value) == LET r == float(value) IN IF r.ok THEN r.value ELSE None

_convert_temperature(value) ==
  FloatOrNone(Strip(Replace(Replace(value, <<",">>, <<".">>), <<"°", "C">>, <<>>)))

_convert_percentage(value) ==
  FloatOrNone(Strip(Replace(Replace(value, <<",">>, <<".">>), <<"%">>, <<>>)))

_convert_number(value) == FloatOrNone(Strip(Replace(value, <<",">>, <<".">>)))

\* A conversion that forgets to scale megawatt hours.
ConvertEnergyUnscaled(value) ==
  LET clean_value ==
        Strip(Replace(Replace(Replace(value, <<",">>, <<".">>),
                              <<"M", "W", "h">>, <<>>), <<"K", "W", "h">>, <<>>))
      result == float(clean_value)
  IN IF ~(Contains(value, <<"K", "W", "h">>) \/ Contains(value, <<"M", "W", "h">>))
       THEN None
     ELSE IF ~result.ok THEN None
     ELSE result.value

_convert_energy(value) ==
  LET is_kwh == Contains(value, <<"K", "W", "h">>)
      is_mwh == Contains(value, <<"M", "W", "h">>)
      clean_value ==
        Strip(Replace(Replace(Replace(value, <<",">>, <<".">>),
                              <<"M", "W", "h">>, <<>>), <<"K", "W", "h">>, <<>>))
      result == float(clean_value)
  IN IF ~(is_kwh \/ is_mwh) THEN None
     ELSE IF ~result.ok THEN None
     ELSE IF is_mwh THEN Times1000(result.value)
     ELSE result.value

(***************************************************************************)
(* The parsed page (what bs4.BeautifulSoup gives for the response text)    *)
(*   title     the title's string; <<>> when there is no title or string   *)
(*   lang_divs the stripped texts of the div.eingestelle_sprache elements  *)
(*   tables    the tables; a table is its rows, a row is its td/th cells   *)
(*   text      the page's visible text                                     *)
(* A cell has its tag, its stripped text and its first img (None, or the   *)
(* img's src attribute, <<>> when the img has none).                       *)
(***************************************************************************)
Page(title, lang_divs, tables, text) ==
  [title |-> title, lang_divs |-> lang_divs, tables |-> tables, text |-> text]

Cell(tag, text, img) == [tag |-> tag, text |-> text, img |-> img]

Img(src) == [src |-> src]

Td(text) == Cell("td", text, None)

Th(text) == Cell("th", text, None)

\* soup.find_all("tr"): the rows of every table, in document order.
RECURSIVE AllRows(_)
AllRows(tables) == IF tables = <<>> THEN <<>> ELSE Head(tables) \o AllRows(Tail(tables))

\* [elem.get_text(strip=True) for elem in row.find_all(["td", "th"])]
CellTexts(row) == [i \in 1..Len(row) |-> row[i].text]

\* [header.get_text(strip=True) for header in row.find_all(["th"])]
ThTexts(row) == CellTexts(SelectSeq(row, LAMBDA c : c.tag = "th"))

IndexError == Raise(Exc("IndexError", <<"list index out of range">>, None))

(***************************************************************************)
(* Python dict (the result mappings)                                       *)
(***************************************************************************)
EmptyDict == [k \in {} |-> None]

\* d[key] = value
Put(d, key, value) == [k \in DOMAIN d \cup {key} |-> IF k = key THEN value ELSE d[k]]

\* d.update(other)
Update(d, other) ==
  [k \in DOMAIN d \cup DOMAIN other |-> IF k \in DOMAIN other THEN other[k] ELSE d[k]]

(***************************************************************************)
(* scrapper.py: language detection and title check                         *)
(***************************************************************************)
\* A detection that falls back to English for a marker the table lacks.
ExtractLanguageKnownOnly(soup) ==
  IF soup.lang_divs = <<>> \/ soup.lang_divs[1] \notin DOMAIN FIELDS_I18N THEN "ENGLISH"
  ELSE soup.lang_divs[1]

_extract_language(soup) ==
  IF soup.lang_divs = <<>> \/ soup.lang_divs[1] = "" THEN "ENGLISH"
  ELSE soup.lang_divs[1]

\* A title check that accepts any page that has a title.
CheckTitlePresentOnly(response) ==
  IF response.title = <<>>
    THEN Raise(Exc(StiebelEltronScrapingClientError, <<"No title found">>, None))
    ELSE Return(None)

_check_title(response) ==
  LET title == response.title
  IN IF title = <<>> \/ ~Contains(title, EXPECTED_HTML_TITLE)
       THEN Raise(Exc(StiebelEltronScrapingClientError,
                      IF title /= <<>> THEN title ELSE <<"No title found">>, None))
       ELSE Return(None)

(***************************************************************************)
(* scrapper.py: table scans                                                *)
(***************************************************************************)
\* The first row with at least two cells whose first text is expected_header:
\* its index in the table, 0 when there is none.
LabelRow(table, expected_header) ==
  LET hits == {i \in 1..Len(table) :
                 Len(table[i]) >= 2 /\ table[i][1].text = expected_header}
  IN IF hits = {} THEN 0 ELSE CHOOSE i \in hits : \A j \in hits : i <= j

_extract_energy(table, expected_header) ==
  LET i == LabelRow(table, expected_header)
  IN IF i = 0 THEN None ELSE _convert_energy(table[i][2].text)

_extract_number(table, expected_header) ==
  LET i == LabelRow(table, expected_header)
  IN IF i = 0 THEN None ELSE _convert_number(table[i][2].text)

\* An extraction for which any icon that has a source counts as "on".
ExtractBooleanAnyIcon(table, expected_header) ==
  \E i \in 1..Len(table) :
    /\ Len(table[i]) >= 2
    /\ table[i][1].text = expected_header
    /\ table[i][2].img /= None
    /\ table[i][2].img.src /= <<>>

\* The rows that end the scan of _extract_boolean: labelled expected_header,
\* with an img that has a src in the second cell.
_extract_boolean(table, expected_header) ==
  LET hits == {i \in 1..Len(table) :
                 /\ Len(table[i]) >= 2
                 /\ table[i][1].text = expected_header
                 /\ table[i][2].img /= None
                 /\ table[i][2].img.src /= <<>>}
  IN IF hits = {} THEN FALSE
     ELSE LET i == CHOOSE k \in hits : \A j \in hits : k <= j
          IN Contains(table[i][2].img.src, ICON_ON_SRC)

\* The version components after the rows up to i: <<major, minor, revision>>,
\* each <<>> while it is None.  The three labels are looked up in turn for
\* every row with at least two cells.
RECURSIVE VersionScan(_, _, _, _)
VersionScan(table, language, i, found) ==
  IF i > Len(table) THEN Return(found)
  ELSE IF Len(table[i]) < 2 THEN VersionScan(table, language, i + 1, found)
  ELSE LET texts == CellTexts(table[i])
           major == _get_field_i18n("MAJOR_VERSION", language)
           minor == _get_field_i18n("MINOR_VERSION", language)
           revision == _get_field_i18n("REVISION", language)
       IN IF ~major.ok THEN major
          ELSE IF texts[1] = major.value
            THEN VersionScan(table, language, i + 1, [found EXCEPT ![1] = <<texts[2]>>])
          ELSE IF ~minor.ok THEN minor
          ELSE IF texts[1] = minor.value
            THEN VersionScan(table, language, i + 1, [found EXCEPT ![2] = <<texts[2]>>])
          ELSE IF ~revision.ok THEN revision
          ELSE IF texts[1] = revision.value
            THEN VersionScan(table, language, i + 1, [found EXCEPT ![3] = <<texts[2]>>])
          ELSE VersionScan(table, language, i + 1, found)

\* A component that was found holds its text (which may be empty); str(None)
\* is "None".
Component(c) == IF c = <<>> THEN <<"N", "o", "n", "e">> ELSE c[1]

_extract_version(table, language) ==
  LET scan == VersionScan(table, language, 1, <<<<>>, <<>>, <<>>>>)
  IN IF ~scan.ok THEN scan
     ELSE Return(Component(scan.value[1]) \o <<".">> \o Component(scan.value[2])
                 \o <<".">> \o Component(scan.value[3]))

(***************************************************************************)
(* scrapper.py: page extractors                                            *)
(***************************************************************************)
\* The elif chain of _extract_info_system for one row with cells: the labels
\* are looked up in turn until one equals the row's first text.
InfoSystemFields ==
  << [field |-> "ACTUAL TEMPERATURE 1", key |-> ROOM_TEMPERATURE_KEY, percent |-> FALSE],
     [field |-> "OUTSIDE TEMPERATURE", key |-> OUTSIDE_TEMPERATURE_KEY, percent |-> FALSE],
     [field |-> "RELATIVE HUMIDITY 1", key |-> ROOM_HUMIDITY_KEY, percent |-> TRUE],
     [field |-> "ACTUAL TEMPERATURE HK 1", key |-> FLOW_TEMPERATURE_KEY, percent |-> FALSE],
     [field |-> "SET TEMPERATURE HK 1", key |-> TARGET_FLOW_TEMPERATURE_KEY, percent |-> FALSE] >>

RECURSIVE InfoSystemRow(_, _, _, _)
InfoSystemRow(curr_row_elems, language, n, result) ==
  IF n > Len(InfoSystemFields) THEN Return(result)
  ELSE LET f == InfoSystemFields[n]
           label == _get_field_i18n(f.field, language)
       IN IF ~label.ok THEN label
          ELSE IF curr_row_elems[1] /= label.value
            THEN InfoSystemRow(curr_row_elems, language, n + 1, result)
          ELSE IF Len(curr_row_elems) < 2 THEN IndexError
          ELSE Return(Put(result, f.key,
                          IF f.percent THEN _convert_percentage(curr_row_elems[2])
                          ELSE _convert_temperature(curr_row_elems[2])))

RECURSIVE InfoSystemRows(_, _, _)
InfoSystemRows(rows, language, result) ==
  IF rows = <<>> THEN Return(result)
  ELSE IF Head(rows) = <<>> THEN InfoSystemRows(Tail(rows), language, result)
  ELSE LET r == InfoSystemRow(CellTexts(Head(rows)), language, 1, result)
       IN IF ~r.ok THEN r ELSE InfoSystemRows(Tail(rows), language, r.value)

_extract_info_system(response) ==
  InfoSystemRows(AllRows(response.tables), _extract_language(response), EmptyDict)

\* curr_headers[0] of a table: all_rows[0] and then the first th of it, each
\* an IndexError when missing.
FirstHeader(curr_table) ==
  IF curr_table = <<>> THEN IndexError
  ELSE IF ThTexts(curr_table[1]) = <<>> THEN IndexError
  ELSE Return(ThTexts(curr_table[1])[1])

\* The loop body of _extract_info_heatpump for one table.
InfoHeatpumpTable(curr_table, language, result) ==
  LET header == FirstHeader(curr_table)
      amount == _get_field_i18n("AMOUNT OF HEAT", language)
      power == _get_field_i18n("POWER CONSUMPTION", language)
      starts == _get_field_i18n("STARTS", language)
      day == _get_field_i18n("VD HEATING DAY", language)
      total == _get_field_i18n("VD HEATING TOTAL", language)
      compressor == _get_field_i18n("COMPRESSOR", language)
  IN IF ~header.ok THEN header
     ELSE IF ~amount.ok THEN amount
     ELSE IF header.value = amount.value
       THEN IF ~day.ok THEN day
            ELSE IF ~total.ok THEN total
            ELSE Return(Put(Put(result, HEATING_KEY, _extract_energy(curr_table, day.value)),
                            TOTAL_HEATING_KEY, _extract_energy(curr_table, total.value)))
     ELSE IF ~power.ok THEN power
     ELSE IF header.value = power.value
       THEN IF ~day.ok THEN day
            ELSE IF ~total.ok THEN total
            ELSE Return(Put(Put(result, POWER_CONSUMPTION_KEY,
                                _extract_energy(curr_table, day.value)),
                            TOTAL_POWER_CONSUMPTION_KEY,
                            _extract_energy(curr_table, total.value)))
     ELSE IF ~starts.ok THEN starts
     ELSE IF header.value = starts.value
       THEN IF ~compressor.ok THEN compressor
            ELSE Return(Put(result, COMPRESSOR_STARTS_KEY,
                            _extract_number(curr_table, compressor.value)))
     ELSE Return(result)

\* The loop body of _extract_diagnosis_system_status for one table.
SystemStatusTable(curr_table, language, result) ==
  LET header == FirstHeader(curr_table)
      mode == _get_field_i18n("OPERATING MODE", language)
      defrost == _get_field_i18n("DEFROST", language)
  IN IF ~header.ok THEN header
     ELSE IF ~mode.ok THEN mode
     ELSE IF header.value = mode.value
       THEN IF ~defrost.ok THEN defrost
            ELSE Return(Put(result, DEFROST_STATUS_KEY,
                            _extract_boolean(curr_table, defrost.value)))
     ELSE Return(result)

\* The loop body of _extract_diagnosis_heat_pump_status for one table.
HeatPumpStatusTable(curr_table, language, result) ==
  LET header == FirstHeader(curr_table)
      status == _get_field_i18n("HEAT PUMP STATUS", language)
      compressor == _get_field_i18n("COMPRESSOR", language)
      auxiliary == _get_field_i18n("AUXILIARY HEATER", language)
      booster1 == _get_field_i18n("BOOSTER HEATER STAGE 1", language)
      booster2 == _get_field_i18n("BOOSTER HEATER STAGE 2", language)
  IN IF ~header.ok THEN header
     ELSE IF ~status.ok THEN status
     ELSE IF header.value = status.value
       THEN IF ~compressor.ok THEN compressor
            ELSE IF ~auxiliary.ok THEN auxiliary
            ELSE IF ~booster1.ok THEN booster1
            ELSE IF ~booster2.ok THEN booster2
            ELSE Return(
              Put(Put(Put(Put(result,
                COMPRESSOR_STATUS_KEY, _extract_boolean(curr_table, compressor.value)),
                AUXILIARY_HEATER_STATUS_KEY, _extract_boolean(curr_table, auxiliary.value)),
                BOOSTER_HEATER_1_STATUS_KEY, _extract_boolean(curr_table, booster1.value)),
                BOOSTER_HEATER_2_STATUS_KEY, _extract_boolean(curr_table, booster2.value)))
     ELSE Return(result)

\* The loop body of _extract_diagnosis_system for one table.
DiagnosisSystemTable(curr_table, language, result) ==
  LET header == FirstHeader(curr_table)
      version == _extract_version(curr_table, language)
  IN IF ~header.ok THEN header
     ELSE IF header.value = <<"I", "S", "G">>
       THEN IF ~version.ok THEN version
            ELSE Return(Put(result, ATTR_SW_VERSION, version.value))
     ELSE Return(result)

\* "for curr_table in all_tables": the body applied to each table in turn;
\* the first exception ends the loop.
RECURSIVE ForTables(_, _, _, _)
ForTables(Body(_, _, _), all_tables, language, result) ==
  IF all_tables = <<>> THEN Return(result)
  ELSE LET r == Body(Head(all_tables), language, result)
       IN IF ~r.ok THEN r ELSE ForTables(Body, Tail(all_tables), language, r.value)

\* An extractor that looks the rows up in the whole page, not only in the
\* table selected by the header.
ExtractInfoHeatpumpAcrossTables(response) ==
  ForTables(InfoHeatpumpTable,
            [t \in 1..Len(response.tables) |->
               IF response.tables[t] = <<>> THEN <<>>
               ELSE <<response.tables[t][1]>> \o AllRows(response.tables)],
            _extract_language(response), EmptyDict)

\* An extractor that assumes the page is in English.
ExtractInfoHeatpumpAssumedEnglish(response) ==
  ForTables(InfoHeatpumpTable, response.tables, "ENGLISH", EmptyDict)

_extract_info_heatpump(response) ==
  ForTables(InfoHeatpumpTable, response.tables, _extract_language(response), EmptyDict)

\* An extractor that starts from an empty mapping.
ExtractSystemStatusUnseeded(response) ==
  ForTables(SystemStatusTable, response.tables, _extract_language(response), EmptyDict)

_extract_diagnosis_system_status(response) ==
  ForTables(SystemStatusTable, response.tables, _extract_language(response),
            DEFROST_STATUS_KEY :> FALSE)

_extract_diagnosis_heat_pump_status(response) ==
  ForTables(HeatPumpStatusTable, response.tables, _extract_language(response),
               AUXILIARY_HEATER_STATUS_KEY :> FALSE
            @@ BOOSTER_HEATER_1_STATUS_KEY :> FALSE
            @@ BOOSTER_HEATER_2_STATUS_KEY :> FALSE
            @@ COMPRESSOR_STATUS_KEY :> FALSE)

_extract_diagnosis_system(response) ==
  ForTables(DiagnosisSystemTable, response.tables, _extract_language(response), EmptyDict)

\* re.findall(r"(?:[0-9a-fA-F]:?){12}", text): the end of the match that
\* starts at i after n more repetitions, 0 when there is none.  The greedy
\* ":?" never has to give its colon back, a colon being no hex digit.
HexDigits ==
  {"0", "1", "2", "3", "4", "5", "6", "7", "8", "9",
   "a", "b", "c", "d", "e", "f", "A", "B", "C", "D", "E", "F"}

RECURSIVE MacMatchEnd(_, _, _)
MacMatchEnd(text, i, n) ==
  IF n = 0 THEN i - 1
  ELSE IF i > Len(text) \/ text[i] \notin HexDigits THEN 0
  ELSE IF i + 1 <= Len(text) /\ text[i + 1] = ":" THEN MacMatchEnd(text, i + 2, n - 1)
  ELSE MacMatchEnd(text, i + 1, n - 1)

MacNibbles == 12

\* An extractor that keeps the last match instead of the first.
ExtractProfileNetworkLast(response) ==
  LET full_text == response.text
      starts == {i \in 1..Len(full_text) : MacMatchEnd(full_text, i, MacNibbles) > 0}
  IN IF starts = {} THEN Return(EmptyDict)
     ELSE LET i == CHOOSE k \in starts : \A j \in starts : j <= k
          IN Return(Put(EmptyDict, MAC_ADDRESS_KEY,
                        SubSeq(full_text, i, MacMatchEnd(full_text, i, MacNibbles))))

_extract_profile_network(response) ==
  LET full_text == response.text
      starts == {i \in 1..Len(full_text) : MacMatchEnd(full_text, i, MacNibbles) > 0}
  IN IF starts = {} THEN Return(EmptyDict)
     ELSE LET i == CHOOSE k \in starts : \A j \in starts : k <= j
          IN Return(Put(EmptyDict, MAC_ADDRESS_KEY,
                        SubSeq(full_text, i, MacMatchEnd(full_text, i, MacNibbles))))

(***************************************************************************)
(* scrapper.py: transport                                                  *)
(* What awaiting session.request under the timeout produced:               *)
(*   Response(status, page)  a response, read as text and parsed           *)
(*   Raised(exc)             the request raised exc                        *)
(*   TimedOut                the timeout expired first                     *)
(***************************************************************************)
Response(status, page) == [kind |-> "response", status |-> status, page |-> page]

Raised(exc) == [kind |-> "raise", exc |-> exc]

TimedOut == [kind |-> "timeout"]

_verify_response_or_raise(response) ==
  IF response.status \in {401, 403}
    THEN Raise(Exc(StiebelEltronScrapingClientAuthenticationError,
                   <<"Invalid credentials">>, None))
  \* response.raise_for_status()
  ELSE IF response.status >= 400
    THEN Raise(Exc("aiohttp.ClientResponseError", <<"HTTP error status">>, None))
  ELSE Return(None)

\* The try block of _api_wrapper.
ApiWrapperTry(outcome) ==
  IF outcome.kind = "timeout"
    THEN Raise(Exc("TimeoutError", <<>>, None))
  ELSE IF outcome.kind = "raise" THEN Raise(outcome.exc)
  ELSE LET verified == _verify_response_or_raise(outcome)
       IN IF ~verified.ok THEN verified ELSE Return(outcome.page)

\* A wrapper that lets the ClientResponseError of raise_for_status pass.
ApiWrapperRawResponseError(outcome) ==
  LET r == ApiWrapperTry(outcome)
  IN IF r.ok THEN r
     ELSE IF Catches({"TimeoutError"}, r.exc)
       THEN Raise(Exc(StiebelEltronScrapingClientCommunicationError,
                      <<"Timeout error fetching information - ">> \o r.exc.msg, r.exc))
     ELSE IF Catches({"aiohttp.ClientResponseError"}, r.exc) THEN r
     ELSE IF Catches({"aiohttp.ClientError", "socket.gaierror"}, r.exc)
       THEN Raise(Exc(StiebelEltronScrapingClientCommunicationError,
                      <<"Error fetching information - ">> \o r.exc.msg, r.exc))
     ELSE IF Catches({"Exception"}, r.exc)
       THEN Raise(Exc(StiebelEltronScrapingClientError,
                      <<"Something really wrong happened! - ">> \o r.exc.msg, r.exc))
     ELSE r

\* A wrapper whose timeout handler raises the generic error.
ApiWrapperTimeoutGeneric(outcome) ==
  LET r == ApiWrapperTry(outcome)
  IN IF r.ok THEN r
     ELSE IF Catches({"aiohttp.ClientError", "socket.gaierror"}, r.exc)
       THEN Raise(Exc(StiebelEltronScrapingClientCommunicationError,
                      <<"Error fetching information - ">> \o r.exc.msg, r.exc))
     ELSE IF Catches({"Exception"}, r.exc)
       THEN Raise(Exc(StiebelEltronScrapingClientError,
                      <<"Something really wrong happened! - ">> \o r.exc.msg, r.exc))
     ELSE r

_api_wrapper(outcome) ==
  LET r == ApiWrapperTry(outcome)
  IN IF r.ok THEN r
     ELSE IF Catches({"TimeoutError"}, r.exc)
       THEN Raise(Exc(StiebelEltronScrapingClientCommunicationError,
                      <<"Timeout error fetching information - ">> \o r.exc.msg, r.exc))
     ELSE IF Catches({"aiohttp.ClientError", "socket.gaierror"}, r.exc)
       THEN Raise(Exc(StiebelEltronScrapingClientCommunicationError,
                      <<"Error fetching information - ">> \o r.exc.msg, r.exc))
     ELSE IF Catches({"Exception"}, r.exc)
       THEN Raise(Exc(StiebelEltronScrapingClientError,
                      <<"Something really wrong happened! - ">> \o r.exc.msg, r.exc))
     ELSE r

(***************************************************************************)
(* scrapper.py: the public operations on one page                          *)
(***************************************************************************)
\* "except aiohttp.ClientResponseError as exception: raise ... from exception"
ExceptClientResponseError(r) ==
  IF ~r.ok /\ Catches({"aiohttp.ClientResponseError"}, r.exc)
    THEN Raise(Exc(StiebelEltronScrapingClientError,
                   <<"Failed to connect to ">> \o r.exc.msg, r.exc))
    ELSE r

\* The body shared by the async_scrape_* operations: fetch, then extract,
\* both inside the try.
Scrape(Extract(_), outcome) ==
  LET response == _api_wrapper(outcome)
  IN ExceptClientResponseError(IF ~response.ok THEN response ELSE Extract(response.value))

async_scrape_info_system(outcome) == Scrape(_extract_info_system, outcome)

async_scrape_info_heatpump(outcome) == Scrape(_extract_info_heatpump, outcome)

async_scrape_diagnosis_system_status(outcome) ==
  Scrape(_extract_diagnosis_system_status, outcome)

async_scrape_diagnosis_heat_pump_status(outcome) ==
  Scrape(_extract_diagnosis_heat_pump_status, outcome)

async_scrape_diagnosis_system(outcome) == Scrape(_extract_diagnosis_system, outcome)

async_scrape_profile_network(outcome) == Scrape(_extract_profile_network, outcome)

async_get_mac_address(outcome) == async_scrape_profile_network(outcome)

async_get_versions(outcome) == async_scrape_diagnosis_system(outcome)

\* Returns the response when the title check passes.
TestConnectBody(response) ==
  LET checked == _check_title(response)
  IN IF ~checked.ok THEN checked ELSE Return(response)

async_test_connect(outcome) == Scrape(TestConnectBody, outcome)

(***************************************************************************)
(* coordinator.py                                                          *)
(***************************************************************************)
\* The except clauses shared by _async_setup and _async_update_data.
CoordinatorExcept(r) ==
  IF r.ok THEN r
  ELSE IF Catches({StiebelEltronScrapingClientAuthenticationError}, r.exc)
    THEN Raise(Exc("ConfigEntryAuthFailed", r.exc.msg, r.exc))
  ELSE IF Catches({StiebelEltronScrapingClientError}, r.exc)
    THEN Raise(Exc("UpdateFailed", r.exc.msg, r.exc))
  ELSE r

\* r: what async_fetch_all returned or raised.
_async_update_data(r) == CoordinatorExcept(r)

\* r: what async_get_device_info returned or raised; returns None.
_async_setup(r) == IF r.ok THEN Return(None) ELSE CoordinatorExcept(r)

(***************************************************************************)
(* sensor.py                                                               *)
(***************************************************************************)
\* The keys of the sensor entity descriptions.
SENSOR_ENTITY_DESCRIPTIONS ==
  {ROOM_TEMPERATURE_KEY, ROOM_HUMIDITY_KEY, OUTSIDE_TEMPERATURE_KEY,
   HEATING_KEY, TOTAL_HEATING_KEY, POWER_CONSUMPTION_KEY,
   TOTAL_POWER_CONSUMPTION_KEY, FLOW_TEMPERATURE_KEY,
   TARGET_FLOW_TEMPERATURE_KEY, COMPRESSOR_STARTS_KEY}

\* The keys of the binary sensor entity descriptions.
BINARY_SENSOR_ENTITY_DESCRIPTIONS ==
  {COMPRESSOR_STATUS_KEY, AUXILIARY_HEATER_STATUS_KEY,
   BOOSTER_HEATER_1_STATUS_KEY, BOOSTER_HEATER_2_STATUS_KEY,
   DEFROST_STATUS_KEY}

KeyError(key) == Raise(Exc("KeyError", <<key>>, None))

\* entity.py, StiebelEltronHttpEntity.__init__: building the device info
\* reads coordinator.device_data[MAC_ADDRESS_KEY] and
\* coordinator.device_data.get(ATTR_SW_VERSION, "-").
EntityInit(device_data) ==
  IF MAC_ADDRESS_KEY \notin DOMAIN device_data THEN KeyError(MAC_ADDRESS_KEY)
  ELSE Return(None)

\* The platform's async_setup_entry: one entity per description.  The
\* constructors do not read coordinator.data: the value attribute
\* (_attr_native_value, _attr_is_on) keeps its default, None.  An entity is
\* modelled by its value, under its description's key.
SensorSetupEntry(device_data) ==
  IF ~EntityInit(device_data).ok THEN EntityInit(device_data)
  ELSE Return([key \in SENSOR_ENTITY_DESCRIPTIONS \cup BINARY_SENSOR_ENTITY_DESCRIPTIONS
                 |-> None])

\* Both _handle_coordinator_update methods: the entity's new value.
\* self: [key, value]; data: coordinator.data.
_handle_coordinator_update(self, data) == DictGet(data, self.key)

\* The coordinator calls the update handler of every entity.
UpdateListeners(entities, data) ==
  [key \in DOMAIN entities |->
     _handle_coordinator_update([key |-> key, value |-> entities[key]], data)]

(***************************************************************************)
(* config_flow.py                                                          *)
(***************************************************************************)
\* r: what client.async_test_connect() returned or raised; returns None.
_test_connect(r) == IF r.ok THEN Return(None) ELSE r

\* r: what client.async_get_mac_address() returned or raised.
_get_mac_address(r) ==
  IF ~r.ok THEN r
  ELSE IF r.value = EmptyDict
    THEN Raise(Exc(StiebelEltronScrapingClientError,
                   <<"Could not retrieve MAC address">>, None))
  ELSE Return(DictGet(r.value, MAC_ADDRESS_KEY))

\* Except clauses that try the generic scraping error first.
FlowErrorsGenericFirst(exc) ==
  IF Catches({StiebelEltronScrapingClientError}, exc) THEN "unknown"
  ELSE IF Catches({StiebelEltronScrapingClientAuthenticationError}, exc) THEN "auth"
  ELSE "connection"

\* The except clauses of async_step_user: _errors["base"] for the exception.
FlowErrors(exc) ==
  IF Catches({StiebelEltronScrapingClientAuthenticationError}, exc) THEN "auth"
  ELSE IF Catches({StiebelEltronScrapingClientCommunicationError}, exc) THEN "connection"
  ELSE "unknown"

\* What a step of the flow returns: the kind of result, the errors of the
\* form, the entry's title and data, and the client operations it awaited.
FlowResult(type, base, title, data, awaited) ==
  [type |-> type, base |-> base, title |-> title, data |-> data, awaited |-> awaited]

\* async_step_user.  user_input: None or [host]; r1, r2: what the client's
\* async_test_connect and async_get_mac_address return or raise when they
\* are awaited; configured: an entry with the unique id exists, which makes
\* _abort_if_unique_id_configured abort the flow.  The exceptions of the
\* client's operations are all scraping errors, which the except clauses
\* catch.
async_step_user(user_input, r1, r2, configured) ==
  IF user_input = None THEN FlowResult("form", "", "", None, <<>>)
  ELSE IF ~_test_connect(r1).ok
    THEN FlowResult("form", FlowErrors(r1.exc), "", None, <<"async_test_connect">>)
  ELSE IF ~_get_mac_address(r2).ok
    THEN FlowResult("form", FlowErrors(_get_mac_address(r2).exc), "", None,
                    <<"async_test_connect", "async_get_mac_address">>)
  ELSE IF configured
    THEN FlowResult("abort", "", "", None,
                    <<"async_test_connect", "async_get_mac_address">>)
  ELSE FlowResult("create_entry", "", user_input.host, user_input,
                  <<"async_test_connect", "async_get_mac_address">>)

(***************************************************************************)
(* Inputs: texts, rows, tables and pages a device may serve                *)
(***************************************************************************)
SomeOtherDeviceTitle == <<"S", "o", "m", "e", " ", "O", "t", "h", "e", "r", " ", "D", "e", "v", "i", "c", "e">>

PartialTitle == <<"S", "T", "I", "E", "B", "E", "L", " ", "E", "L", "T", "R", "O", "N">>

PrefixedTitle == <<"I", "S", "G", " ", "-", " ", "S", "T", "I", "E", "B", "E", "L", " ", "E", "L", "T", "R", "O", "N", " ", "R", "e", "g", "l", "e", "r", "s", "t", "e", "u", "e", "r", "u", "n", "g", " ", "v", "2">>

RoomTemperatureText == <<"2", "3", ",", "3", "°", "C">>

OutsideTemperatureText == <<"5", ",", "1", "°", "C">>

HumidityText == <<"5", "3", ",", "3", "%">>

FlowTemperatureText == <<"3", "1", ".", "5", "°", "C">>

TargetFlowTemperatureText == <<"-", "2", ",", "0", "°", "C">>

GarbageText == <<"g", "a", "r", "b", "a", "g", "e">>

HeatingDayText == <<"5", "K", "W", "h">>

HeatingTotalText == <<"2", "4", ",", "2", "4", "9", "M", "W", "h">>

PowerDayText == <<"1", ",", "5", "K", "W", "h">>

PowerTotalText == <<"6", ",", "5", "M", "W", "h">>

StartsText == <<"1", "2", "3", "4">>

RuntimeLabel == <<"R", "U", "N", "T", "I", "M", "E">>

IconOnSrc == <<".", "/", "p", "i", "c", "s", "/", "s", "t", "e", "-", "s", "y", "m", "b", "o", "l", "_", "a", "n", "-", "9", "7", "b", "7", "6", "5", ".", "p", "n", "g">>

IconOffSrc == <<".", "/", "p", "i", "c", "s", "/", "s", "t", "e", "-", "s", "y", "m", "b", "o", "l", "_", "a", "u", "s", "-", "5", "2", "7", "f", "8", "7", ".", "p", "n", "g">>

IsgLabel == <<"I", "S", "G">>

MajorText == <<"1", "2">>

MinorText == <<"2">>

RevisionText == <<"1">>

MacPageText == <<"M", "A", "C", ":", " ", "A", "A", ":", "B", "B", ":", "C", "C", ":", "D", "D", ":", "E", "E", ":", "F", "F">>

NoMacPageText == <<"I", "P", ":", " ", "1", "9", "2", ".", "1", "6", "8", ".", "1", ".", "2", "0">>

TwoMacsPageText == <<"a", "a", ":", "b", "b", ":", "c", "c", ":", "d", "d", ":", "e", "e", ":", "f", "f", " ", "0", "0", "1", "1", "2", "2", "3", "3", "4", "4", "5", "5">>

UnspacedMacPageText == <<"M", "A", "C", ":", "A", "A", ":", "B", "B", ":", "C", "C", ":", "D", "D", ":", "E", "E", ":", "F", "F", ":">>

\* Rows of the system-info page a table may hold.
MaxRows == 2

\* Tables a page may hold.
MaxTables == 2

SeqsUpTo(S, n) == UNION {[1..k -> S] : k \in 0..n}

ImplementedLanguages == {"ENGLISH", "DEUTSCH"}

\* The language marker divs of a page: none, one (empty, implemented,
\* placeholder, unknown), several.
LangDivInputs ==
  {<<>>, <<"">>, <<"ENGLISH">>, <<"DEUTSCH">>, <<"FRANÇAIS">>, <<"KLINGON">>,
   <<"DEUTSCH", "ENGLISH">>}

\* The language a page's labels are written in: the marker's when it is an
\* implemented one, English otherwise.
LabelLanguage(lang_divs) ==
  IF lang_divs /= <<>> /\ lang_divs[1] \in ImplementedLanguages THEN lang_divs[1]
  ELSE "ENGLISH"

L(field_id, language) == FIELDS_I18N[language].items[field_id]

ValueRow(label, value) == <<Td(label), Td(value)>>

IconRow(label, src) == <<Td(label), Cell("td", <<>>, Img(src))>>

HtmlPage(lang_divs, tables) == Page(EXPECTED_HTML_TITLE, lang_divs, tables, <<>>)

InfoSystemRowInputs(ll) ==
  { ValueRow(L("ACTUAL TEMPERATURE 1", ll), RoomTemperatureText),
    ValueRow(L("OUTSIDE TEMPERATURE", ll), OutsideTemperatureText),
    ValueRow(L("RELATIVE HUMIDITY 1", ll), GarbageText),
    <<Td(L("ACTUAL TEMPERATURE HK 1", ll))>>,
    <<>>,
    ValueRow(RuntimeLabel, StartsText) }

InfoSystemFullTable(ll) ==
  << ValueRow(L("ACTUAL TEMPERATURE 1", ll), RoomTemperatureText),
     ValueRow(L("RELATIVE HUMIDITY 1", ll), HumidityText),
     ValueRow(L("OUTSIDE TEMPERATURE", ll), OutsideTemperatureText),
     ValueRow(L("ACTUAL TEMPERATURE HK 1", ll), FlowTemperatureText),
     ValueRow(L("SET TEMPERATURE HK 1", ll), TargetFlowTemperatureText) >>

InfoSystemPages ==
  UNION {{HtmlPage(d, <<t>>) :
            t \in SeqsUpTo(InfoSystemRowInputs(LabelLanguage(d)), MaxRows)
                    \cup {InfoSystemFullTable(LabelLanguage(d))}} :
         d \in LangDivInputs}

\* Tables that defeat the header lookup: no row; a first row without th.
NoRowsTable == <<>>

NoHeaderTable(label) == <<ValueRow(label, StartsText)>>

InfoHeatpumpTableInputs(ll) ==
  { NoRowsTable,
    NoHeaderTable(L("AMOUNT OF HEAT", ll)),
    << <<Th(L("AMOUNT OF HEAT", ll))>>,
       ValueRow(L("VD HEATING DAY", ll), HeatingDayText),
       ValueRow(L("VD HEATING TOTAL", ll), HeatingTotalText) >>,
    << <<Th(L("POWER CONSUMPTION", ll))>>,
       ValueRow(L("VD HEATING DAY", ll), PowerDayText),
       ValueRow(L("VD HEATING TOTAL", ll), PowerTotalText) >>,
    << <<Th(L("STARTS", ll))>>,
       ValueRow(L("COMPRESSOR", ll), StartsText) >>,
    << <<Th(L("AMOUNT OF HEAT", ll))>>,
       <<Td(L("VD HEATING DAY", ll))>>,
       ValueRow(L("VD HEATING TOTAL", ll), GarbageText) >>,
    << <<Th(RuntimeLabel)>>,
       ValueRow(L("COMPRESSOR", ll), StartsText) >> }

SystemStatusTableInputs(ll) ==
  { NoRowsTable,
    NoHeaderTable(L("OPERATING MODE", ll)),
    << <<Th(L("OPERATING MODE", ll))>>, IconRow(L("DEFROST", ll), IconOnSrc) >>,
    << <<Th(L("OPERATING MODE", ll))>>, IconRow(L("DEFROST", ll), IconOffSrc) >>,
    << <<Th(L("OPERATING MODE", ll))>>, ValueRow(L("DEFROST", ll), <<>>) >>,
    << <<Th(RuntimeLabel)>>, IconRow(L("DEFROST", ll), IconOnSrc) >> }

HeatPumpStatusTableInputs(ll) ==
  { NoRowsTable,
    NoHeaderTable(L("HEAT PUMP STATUS", ll)),
    << <<Th(L("HEAT PUMP STATUS", ll))>>,
       IconRow(L("COMPRESSOR", ll), IconOnSrc),
       IconRow(L("AUXILIARY HEATER", ll), IconOffSrc),
       IconRow(L("BOOSTER HEATER STAGE 1", ll), IconOnSrc),
       IconRow(L("BOOSTER HEATER STAGE 2", ll), <<>>) >>,
    << <<Th(L("HEAT PUMP STATUS", ll))>>,
       IconRow(L("AUXILIARY HEATER", ll), IconOnSrc) >>,
    << <<Th(RuntimeLabel)>>, IconRow(L("COMPRESSOR", ll), IconOnSrc) >> }

DiagnosisSystemTableInputs(ll) ==
  { NoRowsTable,
    NoHeaderTable(IsgLabel),
    << <<Th(IsgLabel)>>,
       ValueRow(L("MAJOR_VERSION", ll), MajorText),
       ValueRow(L("MINOR_VERSION", ll), MinorText),
       ValueRow(L("REVISION", ll), RevisionText) >>,
    << <<Th(IsgLabel)>>,
       ValueRow(L("MINOR_VERSION", ll), MinorText) >>,
    << <<Th(RuntimeLabel)>>,
       ValueRow(L("MAJOR_VERSION", ll), MajorText) >> }

TablePages(TableInputs(_)) ==
  UNION {{HtmlPage(d, ts) : ts \in SeqsUpTo(TableInputs(LabelLanguage(d)), MaxTables)} :
         d \in LangDivInputs}

InfoHeatpumpPages == TablePages(InfoHeatpumpTableInputs)

SystemStatusPages == TablePages(SystemStatusTableInputs)

HeatPumpStatusPages == TablePages(HeatPumpStatusTableInputs)

DiagnosisSystemPages == TablePages(DiagnosisSystemTableInputs)

ProfileNetworkPages ==
  {Page(EXPECTED_HTML_TITLE, d, <<>>, t) :
     d \in {<<>>, <<"FRANÇAIS">>}, t \in {MacPageText, NoMacPageText, TwoMacsPageText, UnspacedMacPageText, <<>>}}

RootPages ==
  {Page(t, d, <<>>, <<>>) :
     t \in {<<>>, EXPECTED_HTML_TITLE, PrefixedTitle, PartialTitle, SomeOtherDeviceTitle},
     d \in {<<>>, <<"DEUTSCH">>, <<"KLINGON">>}}

ErrorStatuses == {401, 403, 404, 500}

\* Exceptions session.request may raise: a connection failure, a DNS
\* failure, and one that is neither a client error nor a timeout.
RequestExceptions ==
  { Exc("aiohttp.ClientConnectionError", <<"Cannot connect to host">>, None),
    Exc("socket.gaierror", <<"Name or service not known">>, None),
    Exc("RuntimeError", <<"Session is closed">>, None) }

\* The body of an error response.
ErrorPage == Page(<<>>, <<>>, <<>>, <<>>)

FailedOutcomes ==
  {Response(s, ErrorPage) : s \in ErrorStatuses}
    \cup {Raised(e) : e \in RequestExceptions}
    \cup {TimedOut}

(***************************************************************************)
(* scrapper.py: the public operations as sequences of page requests        *)
(***************************************************************************)
PageKinds ==
  {"root", "info_system", "info_heatpump", "diagnosis_system_status",
   "diagnosis_heat_pump_status", "diagnosis_system", "profile_network"}

PagePath ==
     "root" :> ROOT_PATH
  @@ "info_system" :> INFO_SYSTEM_PATH
  @@ "info_heatpump" :> INFO_HEATPUMP_PATH
  @@ "diagnosis_system_status" :> DIAGNOSIS_SYSTEM_STATUS_PATH
  @@ "diagnosis_heat_pump_status" :> DIAGNOSIS_HEAT_PUMP_STATUS_PATH
  @@ "diagnosis_system" :> DIAGNOSIS_SYSTEM_PATH
  @@ "profile_network" :> PROFILE_NETWORK_PATH

\* The single-page operation that fetches and extracts a page of a kind.
PageScrape(kind, outcome) ==
  CASE kind = "root" -> async_test_connect(outcome)
    [] kind = "info_system" -> async_scrape_info_system(outcome)
    [] kind = "info_heatpump" -> async_scrape_info_heatpump(outcome)
    [] kind = "diagnosis_system_status" -> async_scrape_diagnosis_system_status(outcome)
    [] kind = "diagnosis_heat_pump_status" ->
         async_scrape_diagnosis_heat_pump_status(outcome)
    [] kind = "diagnosis_system" -> async_scrape_diagnosis_system(outcome)
    [] kind = "profile_network" -> async_scrape_profile_network(outcome)

\* The order async_fetch_all would have with the two status pages swapped.
FetchAllStatusPagesSwapped ==
  <<"info_system", "info_heatpump", "diagnosis_system_status",
    "diagnosis_heat_pump_status">>

\* The pages async_fetch_all awaits, in the order of its statements.
FetchAllPages ==
  <<"info_system", "info_heatpump", "diagnosis_heat_pump_status",
    "diagnosis_system_status">>

\* async_get_mac_address, then async_get_versions.
DeviceInfoPages == <<"profile_network", "diagnosis_system">>

\* The pages each public operation awaits, in order.
OpPages ==
     "async_test_connect" :> <<"root">>
  @@ "async_fetch_all" :> FetchAllPages
  @@ "async_get_device_info" :> DeviceInfoPages
  @@ "async_get_mac_address" :> <<"profile_network">>
  @@ "async_get_versions" :> <<"diagnosis_system">>
  @@ "async_scrape_info_system" :> <<"info_system">>
  @@ "async_scrape_info_heatpump" :> <<"info_heatpump">>
  @@ "async_scrape_diagnosis_system_status" :> <<"diagnosis_system_status">>
  @@ "async_scrape_diagnosis_heat_pump_status" :> <<"diagnosis_heat_pump_status">>
  @@ "async_scrape_diagnosis_system" :> <<"diagnosis_system">>
  @@ "async_scrape_profile_network" :> <<"profile_network">>

PublicOps == DOMAIN OpPages

\* The operations that build "result" with result.update(...).
MergingOps == {"async_fetch_all", "async_get_device_info"}

NotCalled == [pending |-> TRUE]

\* The frame of a running operation: the pages still to await (the first
\* one is in flight), the page results it holds, and its "result" dict.
Frame(todo, extracted, result, outcome) ==
  [todo |-> todo, extracted |-> extracted, result |-> result, outcome |-> outcome]

\* A continuation that skips a page whose scrape raised.
AfterPageSkippingFailure(o, f, r) ==
  LET result == IF r.ok THEN Update(f.result, r.value) ELSE f.result
      extracted == IF r.ok THEN Append(f.extracted, r.value) ELSE f.extracted
  IN IF o \notin MergingOps THEN Frame(<<>>, <<>>, EmptyDict, r)
     ELSE Frame(Tail(f.todo), extracted, result,
                IF Tail(f.todo) = <<>> THEN Return(result) ELSE NotCalled)

\* The operation o resumes with r, what the awaited single-page operation
\* returned or raised.  An exception unwinds the frame; a value is returned
\* as it is, or merged, and the next page awaited.
AfterPage(o, f, r) ==
  IF ~r.ok \/ o \notin MergingOps THEN Frame(<<>>, <<>>, EmptyDict, r)
  ELSE LET result == Update(f.result, r.value)
       IN Frame(Tail(f.todo), Append(f.extracted, r.value), result,
                IF Tail(f.todo) = <<>> THEN Return(result) ELSE NotCalled)

(***************************************************************************)
(* State                                                                   *)
(***************************************************************************)
VARIABLES
  client,       \* the scraping client: its _host and _session
  pc,           \* "idle", or "awaiting" while a page request is in flight
  op,           \* the public operation called last
  caller,       \* who called it: a coordinator method, or "direct"
  todo,         \* the running operation's pages still to await
  extracted,    \* the page results the running operation holds
  result,       \* the running operation's "result" dict
  reqlog,       \* the paths requested by the operation called last, in order
  served,       \* what the last page request produced
  pageResult,   \* what the single-page operation awaited last returned or raised
  elapsed,      \* seconds the last page request took
  outcome,      \* what the operation returned or raised; NotCalled before
  hostOutcome,  \* what the coordinator method returned or raised
  device_data,  \* coordinator.device_data: what _async_setup stored; None before
  data,         \* coordinator.data: the snapshot of the last successful poll
  sensors,      \* the value of each sensor entity, by key; empty before setup
  platform,     \* what the sensor platform's async_setup_entry returned or raised
  answers,      \* history: what the requests of the operation called last produced
  previous,     \* history: how the call before the last one ended
  call,         \* SpecFn: the function call under test, name and arguments
  ret           \* SpecFn: what the call returned or raised; NotCalled before

clientVars ==
  <<client, pc, op, caller, todo, extracted, result, reqlog, served, pageResult,
    elapsed, outcome, hostOutcome>>

hostVars == <<device_data, data, sensors, platform>>

histVars == <<answers, previous>>

fnVars == <<call, ret>>

vars ==
  <<client, pc, op, caller, todo, extracted, result, reqlog, served, pageResult,
    elapsed, outcome, hostOutcome, device_data, data, sensors,
    platform, answers, previous, call, ret>>

NoCall == [fn |-> "", args |-> <<>>]

NothingServed == [kind |-> "none", status |-> 0, raised |-> ""]

\* What a request produced, without the page.
Served(o) ==
  [kind |-> o.kind,
   status |-> IF o.kind = "response" THEN o.status ELSE 0,
   raised |-> IF o.kind = "raise" THEN o.exc.type ELSE ""]

(***************************************************************************)
(* Spec: a device, the client's public operations and the coordinator      *)
(***************************************************************************)
\* The pages the device serves with status 200, by kind.
DevicePages ==
     "root" :>
        { Page(EXPECTED_HTML_TITLE, <<"DEUTSCH">>, <<>>, <<>>),
          Page(SomeOtherDeviceTitle, <<>>, <<>>, <<>>) }
  @@ "info_system" :>
        { HtmlPage(<<"ENGLISH">>, <<InfoSystemFullTable("ENGLISH")>>),
          HtmlPage(<<"DEUTSCH">>,
                   <<<<ValueRow(L("OUTSIDE TEMPERATURE", "DEUTSCH"),
                                OutsideTemperatureText)>>>>),
          HtmlPage(<<"FRANÇAIS">>, <<InfoSystemFullTable("ENGLISH")>>),
          HtmlPage(<<>>, <<<<<<Td(L("ACTUAL TEMPERATURE 1", "ENGLISH"))>>>>>>) }
  @@ "info_heatpump" :>
        { HtmlPage(<<"ENGLISH">>,
                   << << <<Th(L("AMOUNT OF HEAT", "ENGLISH"))>>,
                         ValueRow(L("VD HEATING DAY", "ENGLISH"), HeatingDayText),
                         ValueRow(L("VD HEATING TOTAL", "ENGLISH"), HeatingTotalText) >>,
                      << <<Th(L("POWER CONSUMPTION", "ENGLISH"))>>,
                         ValueRow(L("VD HEATING DAY", "ENGLISH"), PowerDayText),
                         ValueRow(L("VD HEATING TOTAL", "ENGLISH"), PowerTotalText) >>,
                      << <<Th(L("STARTS", "ENGLISH"))>>,
                         ValueRow(L("COMPRESSOR", "ENGLISH"), StartsText) >> >>),
          HtmlPage(<<"DEUTSCH">>,
                   << << <<Th(L("STARTS", "DEUTSCH"))>>,
                         ValueRow(L("COMPRESSOR", "DEUTSCH"), StartsText) >> >>),
          HtmlPage(<<"ENGLISH">>, <<NoRowsTable>>) }
  @@ "diagnosis_heat_pump_status" :>
        { HtmlPage(<<"ENGLISH">>,
                   << << <<Th(L("HEAT PUMP STATUS", "ENGLISH"))>>,
                         IconRow(L("COMPRESSOR", "ENGLISH"), IconOnSrc),
                         IconRow(L("AUXILIARY HEATER", "ENGLISH"), IconOffSrc) >> >>),
          HtmlPage(<<"DEUTSCH">>, <<>>),
          HtmlPage(<<"KLINGON">>, <<<< <<Th(RuntimeLabel)>> >>>>) }
  @@ "diagnosis_system_status" :>
        { HtmlPage(<<"ENGLISH">>,
                   << << <<Th(L("OPERATING MODE", "ENGLISH"))>>,
                         IconRow(L("DEFROST", "ENGLISH"), IconOnSrc) >> >>),
          HtmlPage(<<"DEUTSCH">>, <<>>),
          HtmlPage(<<"ENGLISH">>, <<NoHeaderTable(L("OPERATING MODE", "ENGLISH"))>>) }
  @@ "diagnosis_system" :>
        { HtmlPage(<<"ENGLISH">>,
                   << << <<Th(IsgLabel)>>,
                         ValueRow(L("MAJOR_VERSION", "ENGLISH"), MajorText),
                         ValueRow(L("MINOR_VERSION", "ENGLISH"), MinorText),
                         ValueRow(L("REVISION", "ENGLISH"), RevisionText) >> >>),
          HtmlPage(<<"ENGLISH">>, <<>>),
          HtmlPage(<<"FRANÇAIS">>, <<<< <<Th(IsgLabel)>>,
                                        ValueRow(RuntimeLabel, MajorText) >>>>) }
  @@ "profile_network" :>
        { Page(EXPECTED_HTML_TITLE, <<>>, <<>>, MacPageText),
          Page(EXPECTED_HTML_TITLE, <<>>, <<>>, NoMacPageText) }

\* What the device and the network may answer to a request for a page.
DeviceOutcomes(kind) ==
  {Response(200, p) : p \in DevicePages[kind]}
    \cup {Response(s, ErrorPage) : s \in ErrorStatuses}
    \cup {Raised(e) : e \in RequestExceptions}

\* Seconds a request that is answered in time may take.
Delays == {0, HTTP_CONNECTION_TIMEOUT - 1}

NewClient == [_host |-> "isg.local", _session |-> "session"]

Init ==
  /\ client = NewClient
  /\ pc = "idle"
  /\ op = ""
  /\ caller = ""
  /\ todo = <<>>
  /\ extracted = <<>>
  /\ result = EmptyDict
  /\ reqlog = <<>>
  /\ served = NothingServed
  /\ pageResult = NotCalled
  /\ elapsed = 0
  /\ outcome = NotCalled
  /\ hostOutcome = NotCalled
  /\ device_data = None
  /\ data = None
  /\ sensors = EmptyDict
  /\ platform = NotCalled
  /\ answers = <<>>
  /\ previous = "none"
  /\ call = NoCall
  /\ ret = NotCalled

\* How a call ended: "none" before any call.
Ended(r) == IF r = NotCalled THEN "none" ELSE IF r.ok THEN "returned" ELSE "raised"

\* A call that starts from the "result" dict the call before left behind.
StartKeepingResult(o, by) ==
  /\ pc = "idle"
  /\ pc' = "awaiting"
  /\ op' = o
  /\ caller' = by
  /\ todo' = OpPages[o]
  /\ extracted' = <<>>
  /\ result' = result
  /\ reqlog' = <<PagePath[Head(OpPages[o])]>>
  /\ served' = NothingServed
  /\ pageResult' = NotCalled
  /\ elapsed' = 0
  /\ outcome' = NotCalled
  /\ hostOutcome' = NotCalled
  /\ answers' = <<>>
  /\ previous' = Ended(outcome)
  /\ UNCHANGED <<client, hostVars, call, ret>>

\* The operation o is called and runs up to its first await: the request
\* for its first page is issued.
Start(o, by) ==
  /\ pc = "idle"
  /\ pc' = "awaiting"
  /\ op' = o
  /\ caller' = by
  /\ todo' = OpPages[o]
  /\ extracted' = <<>>
  /\ result' = EmptyDict
  /\ reqlog' = <<PagePath[Head(OpPages[o])]>>
  /\ served' = NothingServed
  /\ pageResult' = NotCalled
  /\ elapsed' = 0
  /\ outcome' = NotCalled
  /\ hostOutcome' = NotCalled
  /\ answers' = <<>>
  /\ previous' = Ended(outcome)
  /\ UNCHANGED <<client, hostVars, call, ret>>

\* coordinator._async_setup awaits client.async_get_device_info(): the
\* first step of the entry's first refresh, until it succeeds.
CoordinatorSetup ==
  /\ device_data = None
  /\ Start("async_get_device_info", "_async_setup")

\* coordinator._async_update_data awaits client.async_fetch_all(): the
\* polls, which follow a successful _async_setup.
CoordinatorUpdate ==
  /\ device_data /= None
  /\ Start("async_fetch_all", "_async_update_data")

\* Any public operation, called outside the coordinator.
DirectCall == \E o \in PublicOps : Start(o, "direct")

\* What leaves the caller when the operation returned or raised r.
CallerResult(by, r) ==
  CASE by = "_async_setup" -> _async_setup(r)
    [] by = "_async_update_data" -> _async_update_data(r)
    [] OTHER -> r

\* _async_setup awaited async_get_device_info, which ended with r: what it
\* returned is stored in device_data.
SetUp(r) ==
  /\ device_data' = IF r.ok THEN r.value ELSE device_data
  /\ UNCHANGED <<data, sensors, platform>>

\* A poll ended with r (what _async_update_data returned or raised): on a
\* return the coordinator stores the snapshot in its data, replacing the
\* previous one; then the entities' update handlers run.
Polled(r) ==
  \E newest \in {IF r.ok THEN r.value ELSE data} :
    /\ data' = newest
    /\ sensors' = UpdateListeners(sensors, newest)
    /\ UNCHANGED <<device_data, platform>>

\* The awaited request produced o after t seconds: the single-page
\* operation finishes, and the operation that awaited it runs on to its
\* next request or to its end.
Resume(o, t) ==
  \E r \in {PageScrape(Head(todo), o)} :
    \E f \in {AfterPage(op, Frame(todo, extracted, result, outcome), r)} :
      \E running \in {f.outcome = NotCalled} :
        /\ pc' = IF running THEN "awaiting" ELSE "idle"
        /\ todo' = f.todo
        /\ extracted' = f.extracted
        /\ result' = f.result
        /\ outcome' = f.outcome
        /\ reqlog' = IF running THEN Append(reqlog, PagePath[Head(f.todo)]) ELSE reqlog
        /\ served' = Served(o)
        /\ pageResult' = r
        /\ elapsed' = IF running THEN 0 ELSE t
        /\ hostOutcome' = IF running THEN hostOutcome ELSE CallerResult(caller, f.outcome)
        /\ IF ~running /\ caller = "_async_update_data"
             THEN Polled(_async_update_data(f.outcome))
             ELSE IF ~running /\ caller = "_async_setup"
               THEN SetUp(f.outcome)
               ELSE UNCHANGED hostVars
        /\ answers' = Append(answers, o)
        /\ UNCHANGED <<client, op, caller, previous, call, ret>>

\* The device answers, or the request raises, before the timeout.
Respond ==
  /\ pc = "awaiting"
  /\ \E o \in DeviceOutcomes(Head(todo)), t \in Delays : Resume(o, t)

\* No answer within HTTP_CONNECTION_TIMEOUT seconds: the timeout expires.
Deadline ==
  /\ pc = "awaiting"
  /\ Resume(TimedOut, HTTP_CONNECTION_TIMEOUT)

\* The sensor platform is set up once the entry's first refresh (the
\* setup, then the first poll) succeeded: the entities are constructed, or
\* the construction raises.
async_setup_entry ==
  /\ pc = "idle"
  /\ device_data /= None
  /\ data /= None
  /\ platform = NotCalled
  /\ platform' = SensorSetupEntry(device_data)
  /\ sensors' = IF platform'.ok THEN platform'.value ELSE sensors
  /\ UNCHANGED <<clientVars, device_data, data, histVars, call, ret>>

Next ==
  \/ CoordinatorSetup
  \/ CoordinatorUpdate
  \/ DirectCall
  \/ Respond
  \/ Deadline
  \/ async_setup_entry

Spec == Init /\ [][Next]_vars

(***************************************************************************)
(* SpecFn: the client's functions, each applied to one drawn input         *)
(***************************************************************************)
\* Language names a lookup may be given: the table's, and names it lacks.
LanguageInputs == DOMAIN FIELDS_I18N \cup {"KLINGON", "english", ""}

FieldIds == DOMAIN ENGLISH_LABELS

FieldIdInputs == FieldIds \cup {"HOT WATER", ""}

I18nCalls ==
  {[fn |-> "_get_field_i18n", args |-> <<f, l>>] : f \in FieldIdInputs, l \in LanguageInputs}

\* The pages language detection may be given: one for each choice of markers.
LanguageCalls ==
  {[fn |-> "_extract_language", args |-> <<HtmlPage(d, <<>>)>>] : d \in LangDivInputs}

\* The cell texts the converters may be given: values as the device writes
\* them, with and without their units, and texts it would not write.
ConverterTextInputs ==
  { <<"2", "3", ",", "3", "°", "C">>,
    <<"5", ",", "1", "°", "C">>,
    <<"-", "4", ",", "5", "°", "C">>,
    <<"5", "3", ",", "3", "%">>,
    <<"g", "a", "r", "b", "a", "g", "e">>,
    <<>>,
    <<"1", "2">>,
    <<"1", "2", ",", "5">>,
    <<"1", "2", ".", "5">>,
    <<"2", "4", ",", "2", "4", "9", "M", "W", "h">>,
    <<"5", "K", "W", "h">>,
    <<"5", "k", "W", "h">>,
    <<"1", ",", "5", " ", "K", "W", "h">>,
    <<"M", "W", "h">>,
    <<"a", "b", "c", "K", "W", "h">>,
    <<"n", "a", "n", "°", "C">>,
    <<"i", "n", "f", "%">>,
    <<"1", "e", "3">>,
    <<"1", "_", "0">>,
    <<"1", "°", "C", "2">>,
    <<"1", ",", "2", ",", "3">>,
    <<" ", "7", " ">>,
    <<"1", "2", "°", "C">>,
    <<"4", "5", "%">>,
    <<"1", "e", "3", "K", "W", "h">>,
    <<"2", "M", "W", "h", "3">> }

Converters ==
  {"_convert_temperature", "_convert_percentage", "_convert_number", "_convert_energy"}

ConverterCalls == {[fn |-> c, args |-> <<t>>] : c \in Converters, t \in ConverterTextInputs}

Convert(c, value) ==
  CASE c = "_convert_temperature" -> _convert_temperature(value)
    [] c = "_convert_percentage" -> _convert_percentage(value)
    [] c = "_convert_number" -> _convert_number(value)
    [] c = "_convert_energy" -> _convert_energy(value)

\* The rows a table given to _extract_boolean may have: the label with an
\* "on" icon, an "off" icon, an icon without src, no icon, no second cell;
\* another label with an "on" icon; a row without cells.
BooleanRowInputs ==
  { IconRow(L("COMPRESSOR", "ENGLISH"), IconOnSrc),
    IconRow(L("COMPRESSOR", "ENGLISH"), IconOffSrc),
    IconRow(L("COMPRESSOR", "ENGLISH"), <<>>),
    ValueRow(L("COMPRESSOR", "ENGLISH"), StartsText),
    <<Td(L("COMPRESSOR", "ENGLISH"))>>,
    IconRow(L("AUXILIARY HEATER", "ENGLISH"), IconOnSrc),
    <<>> }

BooleanCalls ==
  {[fn |-> "_extract_boolean", args |-> <<t, L("COMPRESSOR", "ENGLISH")>>] :
     t \in SeqsUpTo(BooleanRowInputs, MaxRows)}

\* The pages each extractor may be given.
ExtractorPages ==
     "_extract_info_system" :> InfoSystemPages
  @@ "_extract_info_heatpump" :> InfoHeatpumpPages
  @@ "_extract_diagnosis_system_status" :> SystemStatusPages
  @@ "_extract_diagnosis_heat_pump_status" :> HeatPumpStatusPages
  @@ "_extract_diagnosis_system" :> DiagnosisSystemPages
  @@ "_extract_profile_network" :> ProfileNetworkPages

Extractors == DOMAIN ExtractorPages

ExtractCalls ==
  UNION {{[fn |-> e, args |-> <<p>>] : p \in ExtractorPages[e]} : e \in Extractors}

\* The pages of each kind a single-page operation may be served.
KindPages ==
     "root" :> RootPages
  @@ "info_system" :> InfoSystemPages
  @@ "info_heatpump" :> InfoHeatpumpPages
  @@ "diagnosis_system_status" :> SystemStatusPages
  @@ "diagnosis_heat_pump_status" :> HeatPumpStatusPages
  @@ "diagnosis_system" :> DiagnosisSystemPages
  @@ "profile_network" :> ProfileNetworkPages

\* A single-page operation, named by the kind of its page, with what its
\* request produced.
ScrapeCalls ==
  UNION {{[fn |-> "scrape", args |-> <<k, o>>] :
            o \in {Response(200, p) : p \in KindPages[k]} \cup FailedOutcomes} :
         k \in PageKinds}

\* The user step of the config flow: no input yet or a host; what the
\* device answers to the request for the root page and to the request for
\* the network-profile page; whether the device is configured already.
FlowCalls ==
  {[fn |-> "async_step_user", args |-> <<u, o1, o2, c>>] :
     u \in {None, [host |-> "isg.local"]},
     o1 \in {Response(200, p) : p \in RootPages} \cup FailedOutcomes,
     o2 \in {Response(200, p) : p \in ProfileNetworkPages} \cup FailedOutcomes,
     c \in BOOLEAN}

Calls ==
  I18nCalls \cup ConverterCalls \cup LanguageCalls \cup BooleanCalls \cup ExtractCalls
    \cup ScrapeCalls \cup FlowCalls

Extract(e, response) ==
  CASE e = "_extract_info_system" -> _extract_info_system(response)
    [] e = "_extract_info_heatpump" -> _extract_info_heatpump(response)
    [] e = "_extract_diagnosis_system_status" -> _extract_diagnosis_system_status(response)
    [] e = "_extract_diagnosis_heat_pump_status" ->
         _extract_diagnosis_heat_pump_status(response)
    [] e = "_extract_diagnosis_system" -> _extract_diagnosis_system(response)
    [] e = "_extract_profile_network" -> _extract_profile_network(response)

InitFn ==
  /\ call \in Calls
  /\ ret = NotCalled
  /\ client = NewClient
  /\ pc = "idle"
  /\ op = ""
  /\ caller = ""
  /\ todo = <<>>
  /\ extracted = <<>>
  /\ result = EmptyDict
  /\ reqlog = <<>>
  /\ served = NothingServed
  /\ pageResult = NotCalled
  /\ elapsed = 0
  /\ outcome = NotCalled
  /\ hostOutcome = NotCalled
  /\ device_data = None
  /\ data = None
  /\ sensors = EmptyDict
  /\ platform = NotCalled
  /\ answers = <<>>
  /\ previous = "none"

Call_get_field_i18n ==
  /\ call.fn = "_get_field_i18n"
  /\ ret = NotCalled
  /\ ret' = _get_field_i18n(call.args[1], call.args[2])
  /\ UNCHANGED <<call, clientVars, hostVars, histVars>>

CallConverter ==
  /\ call.fn \in Converters
  /\ ret = NotCalled
  /\ ret' = Return(Convert(call.fn, call.args[1]))
  /\ UNCHANGED <<call, clientVars, hostVars, histVars>>

Call_extract_language ==
  /\ call.fn = "_extract_language"
  /\ ret = NotCalled
  /\ ret' = Return(_extract_language(call.args[1]))
  /\ UNCHANGED <<call, clientVars, hostVars, histVars>>

Call_extract_boolean ==
  /\ call.fn = "_extract_boolean"
  /\ ret = NotCalled
  /\ ret' = Return(_extract_boolean(call.args[1], call.args[2]))
  /\ UNCHANGED <<call, clientVars, hostVars, histVars>>

CallExtractor ==
  /\ call.fn \in Extractors
  /\ ret = NotCalled
  /\ ret' = Extract(call.fn, call.args[1])
  /\ UNCHANGED <<call, clientVars, hostVars, histVars>>

CallScrape ==
  /\ call.fn = "scrape"
  /\ ret = NotCalled
  /\ ret' = PageScrape(call.args[1], call.args[2])
  /\ UNCHANGED <<call, clientVars, hostVars, histVars>>

Call_async_step_user ==
  /\ call.fn = "async_step_user"
  /\ ret = NotCalled
  /\ ret' = Return(async_step_user(call.args[1], async_test_connect(call.args[2]),
                                   async_get_mac_address(call.args[3]), call.args[4]))
  /\ UNCHANGED <<call, clientVars, hostVars, histVars>>

NextFn ==
  \/ Call_get_field_i18n
  \/ CallConverter
  \/ Call_extract_language
  \/ Call_extract_boolean
  \/ CallExtractor
  \/ CallScrape
  \/ Call_async_step_user

SpecFn == InitFn /\ [][NextFn]_vars


(***************************************************************************)
(* Properties                                                              *)
(***************************************************************************)
\* A public operation has returned or raised.
Finished == pc = "idle" /\ outcome /= NotCalled

\* What the extractors of the pages in "extracted" returned, merged in the
\* order given by the sequence of indices.
RECURSIVE MergedInOrder(_, _)
MergedInOrder(pages, order) ==
  IF order = <<>> THEN EmptyDict
  ELSE Update(MergedInOrder(pages, SubSeq(order, 1, Len(order) - 1)),
              pages[order[Len(order)]])

Orders(n) == {o \in [1..n -> 1..n] : \A i, j \in 1..n : o[i] = o[j] => i = j}

\* The label the table holds for a field id in an implemented language.
TableLabel(language, field_id) ==
  IF language = "ENGLISH" THEN ENGLISH_LABELS[field_id] ELSE DEUTSCH_LABELS[field_id]

\* A single-page operation has been applied to a page served with status 200.
ScrapedPage ==
  /\ call.fn = "scrape"
  /\ ret /= NotCalled
  /\ call.args[2].kind = "response"
  /\ call.args[2].status = 200

\* The extractor of the page kind compares a label of the page with a label
\* of the table: the page has a row with a cell, or its first table is
\* headed (and, for the versions page, is the ISG table with a value row).
ComparesLabel(kind, page) ==
  CASE kind = "info_system" ->
         \E r \in 1..Len(AllRows(page.tables)) : AllRows(page.tables)[r] /= <<>>
    [] kind \in {"info_heatpump", "diagnosis_system_status",
                 "diagnosis_heat_pump_status"} ->
         /\ page.tables /= <<>>
         /\ page.tables[1] /= <<>>
         /\ ThTexts(page.tables[1][1]) /= <<>>
    [] kind = "diagnosis_system" ->
         /\ page.tables /= <<>>
         /\ page.tables[1] /= <<>>
         /\ ThTexts(page.tables[1][1]) /= <<>>
         /\ ThTexts(page.tables[1][1])[1] = IsgLabel
         /\ \E r \in 1..Len(page.tables[1]) : Len(page.tables[1][r]) >= 2
    [] OTHER -> FALSE

\* C1: whenever the device answers a page request of a public operation with
\* status 401 or 403, the operation fails with the authentication error kind.
C1_AuthStatusFailsWithAuthenticationError ==
  (Finished /\ served.kind = "response" /\ served.status \in {401, 403}) =>
    /\ ~outcome.ok
    /\ outcome.exc.type = StiebelEltronScrapingClientAuthenticationError

\* C2: async_fetch_all returns a snapshot only after all four pages were
\* fetched and extracted; when a page operation fails, at any position, the
\* call fails with that very error, and nothing of the earlier pages is
\* returned or kept in the client.
C2_FetchAllIsAllOrNothing ==
  (op = "async_fetch_all" /\ Finished) =>
    /\ outcome.ok <=> pageResult.ok
    /\ outcome.ok =>
         /\ Len(extracted) = Len(FetchAllPages)
         /\ Len(reqlog) = Len(FetchAllPages)
         /\ outcome.value = MergedInOrder(extracted, <<1, 2, 3, 4>>)
    /\ ~outcome.ok =>
         /\ outcome = pageResult
         /\ DOMAIN outcome = {"ok", "exc"}
         /\ client = NewClient
         /\ extracted = <<>>
         /\ result = EmptyDict

C2_Witness ==
  /\ op = "async_fetch_all"
  /\ Finished
  /\ ~outcome.ok
  /\ Len(reqlog) = 2
  /\ served.kind = "response"
  /\ served.status = 200

\* C3: an error status other than 401/403, a request that takes the whole
\* HTTP_CONNECTION_TIMEOUT, a client error and a DNS failure fail the
\* operation with the communication error; any other exception of the
\* request fails it with the generic error; a pending request can always be
\* ended by the timeout, which never lets it last longer than the bound.
C3_RequestFailuresAreClassified ==
  /\ elapsed <= HTTP_CONNECTION_TIMEOUT
  /\ pc = "awaiting" => ENABLED Deadline
  /\ (served.kind = "timeout") <=> (elapsed = HTTP_CONNECTION_TIMEOUT)
  /\ (Finished /\ served.kind = "response" /\ served.status >= 400
        /\ served.status \notin {401, 403}) =>
       /\ ~outcome.ok
       /\ outcome.exc.type = StiebelEltronScrapingClientCommunicationError
  /\ (Finished /\ served.kind = "timeout") =>
       /\ ~outcome.ok
       /\ outcome.exc.type = StiebelEltronScrapingClientCommunicationError
  /\ (Finished /\ served.kind = "raise") =>
       /\ ~outcome.ok
       /\ outcome.exc.type =
            IF served.raised \in {"aiohttp.ClientConnectionError", "socket.gaierror"}
              THEN StiebelEltronScrapingClientCommunicationError
              ELSE StiebelEltronScrapingClientError

C3_Witness ==
  /\ Finished
  /\ served.kind = "timeout"
  /\ elapsed = HTTP_CONNECTION_TIMEOUT
  /\ ~outcome.ok
  /\ outcome.exc.type = StiebelEltronScrapingClientCommunicationError

\* C4: async_test_connect returns the page only if the root page's title
\* contains EXPECTED_HTML_TITLE; with another title, or none, it fails with a
\* scraping error whose message is that title, or "No title found".
C4_TestConnectChecksTitle ==
  /\ (call.fn = "scrape" /\ call.args[1] = "root" /\ ret /= NotCalled /\ ret.ok) =>
       /\ call.args[2].kind = "response"
       /\ call.args[2].status = 200
       /\ Contains(call.args[2].page.title, EXPECTED_HTML_TITLE)
       /\ ret.value = call.args[2].page
  /\ (ScrapedPage /\ call.args[1] = "root"
        /\ ~Contains(call.args[2].page.title, EXPECTED_HTML_TITLE)) =>
       /\ ~ret.ok
       /\ IsSubclass(ret.exc.type, StiebelEltronScrapingClientError)
       /\ ret.exc.msg = IF call.args[2].page.title = <<>> THEN <<"No title found">>
                        ELSE call.args[2].page.title
  /\ (ScrapedPage /\ call.args[1] = "root"
        /\ Contains(call.args[2].page.title, EXPECTED_HTML_TITLE)) => ret.ok

C4_Witness ==
  /\ ScrapedPage
  /\ call.args[1] = "root"
  /\ call.args[2].page.title = SomeOtherDeviceTitle
  /\ ~ret.ok
  /\ ret.exc.msg = SomeOtherDeviceTitle

\* C5: a single-page operation whose page is in a language without a usable
\* label set, and has a row or headed table to compare labels against, fails
\* with a subtype of StiebelEltronScrapingClientError.
C5_UnsupportedLanguageFailsWithClientError ==
  (ScrapedPage /\ _extract_language(call.args[2].page) \notin ImplementedLanguages
     /\ ComparesLabel(call.args[1], call.args[2].page)) =>
    /\ ~ret.ok
    /\ IsSubclass(ret.exc.type, StiebelEltronScrapingClientError)

\* C6: every failure of async_fetch_all under _async_update_data, and of
\* async_get_device_info under _async_setup, leaves the coordinator as
\* ConfigEntryAuthFailed when it is the authentication error and as
\* UpdateFailed otherwise.
C6_CoordinatorFailuresAreOneOfTwo ==
  (Finished /\ caller \in {"_async_setup", "_async_update_data"} /\ ~outcome.ok) =>
    /\ ~hostOutcome.ok
    /\ hostOutcome.exc.type =
         IF outcome.exc.type = StiebelEltronScrapingClientAuthenticationError
           THEN "ConfigEntryAuthFailed" ELSE "UpdateFailed"

\* C7: on a page in an implemented language, whatever its tables, rows and
\* cells, every page extractor returns a mapping and never raises.
C7_ExtractorsNeverRaise ==
  (call.fn \in Extractors /\ ret /= NotCalled
     /\ _extract_language(call.args[1]) \in ImplementedLanguages) =>
    ret.ok

\* C8 as stated: the requests of async_fetch_all are issued in the order
\* system-info, heat-pump-info, system-status, heat-pump-status.
C8_RequestsInStatedOrder ==
  op = "async_fetch_all" =>
    IsPrefix(reqlog, <<INFO_SYSTEM_PATH, INFO_HEATPUMP_PATH,
                       DIAGNOSIS_SYSTEM_STATUS_PATH, DIAGNOSIS_HEAT_PUMP_STATUS_PATH>>)

\* C8: async_fetch_all issues its requests one after another, each only
\* after the previous page was fetched and extracted, in the order
\* system-info, heat-pump-info, heat-pump-status, system-status.
C8_RequestsSequentialInOrder ==
  op = "async_fetch_all" =>
    /\ IsPrefix(reqlog, <<INFO_SYSTEM_PATH, INFO_HEATPUMP_PATH,
                          DIAGNOSIS_HEAT_PUMP_STATUS_PATH, DIAGNOSIS_SYSTEM_STATUS_PATH>>)
    /\ pc = "awaiting" => Len(reqlog) = Len(extracted) + 1
    /\ (Finished /\ outcome.ok) => Len(reqlog) = 4 /\ Len(extracted) = 4

C8_Witness ==
  /\ op = "async_fetch_all"
  /\ Finished
  /\ outcome.ok
  /\ reqlog = <<INFO_SYSTEM_PATH, INFO_HEATPUMP_PATH,
                DIAGNOSIS_HEAT_PUMP_STATUS_PATH, DIAGNOSIS_SYSTEM_STATUS_PATH>>

\* C9: the key sets of the pages async_fetch_all has extracted are pairwise
\* disjoint, so the snapshot holds every page's value under every key of the
\* page and is the same in whatever order the page results are merged.
C9_PageKeysDisjoint ==
  op = "async_fetch_all" =>
    /\ \A i, j \in 1..Len(extracted) :
         i /= j => DOMAIN extracted[i] \cap DOMAIN extracted[j] = {}
    /\ \A i \in 1..Len(extracted) : \A k \in DOMAIN extracted[i] :
         result[k] = extracted[i][k]
    /\ (Finished /\ outcome.ok) =>
         \A order \in Orders(Len(extracted)) :
           MergedInOrder(extracted, order) = outcome.value

C9_Witness ==
  /\ op = "async_fetch_all"
  /\ Finished
  /\ outcome.ok
  /\ \A i \in 1..4 : DOMAIN extracted[i] /= {}
  /\ {COMPRESSOR_STARTS_KEY, COMPRESSOR_STATUS_KEY, DEFROST_STATUS_KEY,
      ROOM_TEMPERATURE_KEY} \subseteq DOMAIN outcome.value

\* C10: _get_field_i18n returns the table's label when the language is
\* ENGLISH or DEUTSCH and the field id is defined for it, and raises one and
\* the same error, ValueError, in every other case.
C10_LookupLabelOrOneError ==
  (call.fn = "_get_field_i18n" /\ ret /= NotCalled) =>
    IF call.args[2] \in ImplementedLanguages /\ call.args[1] \in FieldIds
      THEN ret = Return(TableLabel(call.args[2], call.args[1]))
      ELSE ~ret.ok /\ ret.exc.type = "ValueError"

C10_Witness ==
  /\ call.fn = "_get_field_i18n"
  /\ ret /= NotCalled
  /\ call.args[2] = "FRANÇAIS"
  /\ call.args[1] = "STARTS"
  /\ ~ret.ok

\* C11: language detection always returns: ENGLISH when the page has no
\* marker or its first marker's text is empty, and otherwise the text of the
\* first marker as it is, whether or not the table knows that language.
C11_LanguageDetectionTotal ==
  (call.fn = "_extract_language" /\ ret /= NotCalled) =>
    /\ ret.ok
    /\ ret.value = IF call.args[1].lang_divs = <<>> THEN "ENGLISH"
                   ELSE IF Head(call.args[1].lang_divs) = "" THEN "ENGLISH"
                   ELSE Head(call.args[1].lang_divs)

C11_Witness ==
  /\ call.fn = "_extract_language"
  /\ call.args[1].lang_divs = <<"KLINGON">>
  /\ ret = Return("KLINGON")

\* The status keys of each status page, with the field id of the row each
\* is read from, and the field id of the header of the page's status table.
StatusRowFields ==
     "_extract_diagnosis_heat_pump_status" :>
        (   COMPRESSOR_STATUS_KEY :> "COMPRESSOR"
         @@ AUXILIARY_HEATER_STATUS_KEY :> "AUXILIARY HEATER"
         @@ BOOSTER_HEATER_1_STATUS_KEY :> "BOOSTER HEATER STAGE 1"
         @@ BOOSTER_HEATER_2_STATUS_KEY :> "BOOSTER HEATER STAGE 2")
  @@ "_extract_diagnosis_system_status" :> (DEFROST_STATUS_KEY :> "DEFROST")

StatusHeaderField ==
     "_extract_diagnosis_heat_pump_status" :> "HEAT PUMP STATUS"
  @@ "_extract_diagnosis_system_status" :> "OPERATING MODE"

\* The table is headed (first th of its first row) by the text.
HeadedBy(table, text) ==
  /\ table /= <<>>
  /\ ThTexts(table[1]) /= <<>>
  /\ ThTexts(table[1])[1] = text

\* The page, in an implemented language, has a table headed by the label of
\* header_field with a row (of two cells or more) labelled row_field.
RowFound(page, header_field, row_field) ==
  /\ _extract_language(page) \in ImplementedLanguages
  /\ \E t \in 1..Len(page.tables) :
       /\ HeadedBy(page.tables[t], TableLabel(_extract_language(page), header_field))
       /\ LabelRow(page.tables[t], TableLabel(_extract_language(page), row_field)) /= 0

\* C12: whenever a status-page extractor returns, its mapping has exactly
\* the status keys of its page, each mapped to a boolean, and a key whose
\* table or row is not on the page is FALSE.
C12_StatusKeysAlwaysBoolean ==
  (call.fn \in DOMAIN StatusRowFields /\ ret /= NotCalled /\ ret.ok) =>
    /\ DOMAIN ret.value = DOMAIN StatusRowFields[call.fn]
    /\ \A k \in DOMAIN ret.value :
         /\ ret.value[k] \in BOOLEAN
         /\ ~RowFound(call.args[1], StatusHeaderField[call.fn],
                      StatusRowFields[call.fn][k]) => ret.value[k] = FALSE

C12_Witness ==
  /\ call.fn = "_extract_diagnosis_heat_pump_status"
  /\ ret /= NotCalled
  /\ ret.ok
  /\ RowFound(call.args[1], "HEAT PUMP STATUS", "AUXILIARY HEATER")
  /\ ~RowFound(call.args[1], "HEAT PUMP STATUS", "COMPRESSOR")
  /\ ret.value[AUXILIARY_HEATER_STATUS_KEY] = TRUE
  /\ ret.value[COMPRESSOR_STATUS_KEY] = FALSE

\* The row has the label in its first cell and, in the cell next to it, an
\* icon that has a source.
HasSourcedIcon(row, label) ==
  /\ Len(row) >= 2
  /\ row[1].text = label
  /\ row[2].img /= None
  /\ row[2].img.src /= <<>>

\* C13: _extract_boolean never raises, and returns TRUE exactly when the row
\* with the label (the first that has an icon with a source next to the
\* label) has ICON_ON_SRC in that source; without such a row, or with
\* another source, it returns FALSE.
C13_BooleanIffOnIcon ==
  (call.fn = "_extract_boolean" /\ ret /= NotCalled) =>
    /\ ret.ok
    /\ ret.value \in BOOLEAN
    /\ ret.value <=>
         \E i \in 1..Len(call.args[1]) :
           /\ HasSourcedIcon(call.args[1][i], call.args[2])
           /\ Contains(call.args[1][i][2].img.src, <<"s", "t", "e", "-", "s", "y", "m",
                                                     "b", "o", "l", "_", "a", "n", "-">>)
           /\ \A j \in 1..(i - 1) : ~HasSourcedIcon(call.args[1][j], call.args[2])
    /\ (\A i \in 1..Len(call.args[1]) : ~HasSourcedIcon(call.args[1][i], call.args[2]))
         => ret.value = FALSE

C13_Witness ==
  /\ call.fn = "_extract_boolean"
  /\ ret = Return(TRUE)
  /\ Len(call.args[1]) = 2
  /\ ~HasSourcedIcon(call.args[1][1], call.args[2])
  /\ HasSourcedIcon(call.args[1][2], call.args[2])

KWh == <<"K", "W", "h">>

MWh == <<"M", "W", "h">>

\* The text without its units and with points for its commas, as parsed.
EnergyRemainder(text) ==
  float(Strip(Replace(Replace(Replace(text, <<",">>, <<".">>), MWh, <<>>), KWh, <<>>)))

\* C14: _convert_energy returns None for a text that contains neither "KWh"
\* nor "MWh"; otherwise it parses the text without its unit and with a
\* point for the comma, and returns None when that does not parse, the
\* parsed value times 1000 for "MWh", and the parsed value for "KWh":
\* "24,249MWh" gives 24249, "5KWh" gives 5, "5kWh" and "12" give None.
C14_EnergyNeedsUnitAndScales ==
  (call.fn = "_convert_energy" /\ ret /= NotCalled) =>
    /\ ret.ok
    /\ ~(Contains(call.args[1], KWh) \/ Contains(call.args[1], MWh)) => ret.value = None
    /\ (Contains(call.args[1], KWh) \/ Contains(call.args[1], MWh)) =>
         ret.value =
           IF ~EnergyRemainder(call.args[1]).ok THEN None
           ELSE IF ~Contains(call.args[1], MWh) THEN EnergyRemainder(call.args[1]).value
           ELSE IF IsFinite(EnergyRemainder(call.args[1]).value)
             THEN Normal(EnergyRemainder(call.args[1]).value.neg,
                         1000 * EnergyRemainder(call.args[1]).value.digits,
                         EnergyRemainder(call.args[1]).value.decs)
           ELSE EnergyRemainder(call.args[1]).value
    /\ call.args[1] = <<"2", "4", ",", "2", "4", "9", "M", "W", "h">> =>
         ret.value = Float(24249, 0)
    /\ call.args[1] = <<"5", "K", "W", "h">> => ret.value = Float(5, 0)
    /\ call.args[1] = <<"5", "k", "W", "h">> => ret.value = None
    /\ call.args[1] = <<"1", "2">> => ret.value = None
    /\ call.args[1] = <<"a", "b", "c", "K", "W", "h">> => ret.value = None

C14_Witness ==
  /\ call.fn = "_convert_energy"
  /\ call.args[1] = <<"2", "4", ",", "2", "4", "9", "M", "W", "h">>
  /\ ret = Return(Float(24249, 0))

\* The unit suffix each of the three converters removes.
UnitSuffix ==
     "_convert_temperature" :> <<"°", "C">>
  @@ "_convert_percentage" :> <<"%">>
  @@ "_convert_number" :> <<>>

IsSuffix(u, s) == Len(u) <= Len(s) /\ SubSeq(s, Len(s) - Len(u) + 1, Len(s)) = u

WithoutSuffix(s, u) == IF IsSuffix(u, s) THEN SubSeq(s, 1, Len(s) - Len(u)) ELSE s

\* What is left of a cell text for a converter: the text without the unit
\* suffix, with points for its commas, and without surrounding whitespace.
Remainder(c, text) == Strip(Replace(WithoutSuffix(text, UnitSuffix[c]), <<",">>, <<".">>))

Unsigned(s) == IF s /= <<>> /\ Head(s) \in {"+", "-"} THEN Tail(s) ELSE s

\* A text that writes a number: an optional sign, then digits around at
\* most one decimal point, one digit at least.
WritesNumber(s) ==
  /\ \A i \in 1..Len(Unsigned(s)) : Unsigned(s)[i] \in DOMAIN DigitValue \cup {"."}
  /\ Cardinality({i \in 1..Len(Unsigned(s)) : Unsigned(s)[i] = "."}) <= 1
  /\ \E i \in 1..Len(Unsigned(s)) : Unsigned(s)[i] \in DOMAIN DigitValue

\* The number such a text writes.
NumberWritten(s) ==
  Normal(s /= <<>> /\ Head(s) = "-",
         DigitsToInt(SelectSeq(Unsigned(s), LAMBDA ch : ch /= "."), 0),
         Cardinality({i \in 1..Len(Unsigned(s)) :
                        \E d \in 1..Len(Unsigned(s)) : Unsigned(s)[d] = "." /\ d < i}))

\* C15: the temperature, percentage and plain-number converters never raise;
\* each returns the number its text writes once the unit suffix is removed
\* and the comma is a point, and None when what remains writes no number.
C15_ConvertersNumberOrNull ==
  (call.fn \in DOMAIN UnitSuffix /\ ret /= NotCalled) =>
    /\ ret.ok
    /\ ret.value = IF WritesNumber(Remainder(call.fn, call.args[1]))
                     THEN NumberWritten(Remainder(call.fn, call.args[1]))
                     ELSE None

\* The field id whose label marks the row of each system-info key.
InfoSystemKeyField ==
     ROOM_TEMPERATURE_KEY :> "ACTUAL TEMPERATURE 1"
  @@ ROOM_HUMIDITY_KEY :> "RELATIVE HUMIDITY 1"
  @@ OUTSIDE_TEMPERATURE_KEY :> "OUTSIDE TEMPERATURE"
  @@ FLOW_TEMPERATURE_KEY :> "ACTUAL TEMPERATURE HK 1"
  @@ TARGET_FLOW_TEMPERATURE_KEY :> "SET TEMPERATURE HK 1"

\* The rows of the page whose first cell is the label of the key's field.
KeyRows(page, key) ==
  {r \in 1..Len(AllRows(page.tables)) :
     /\ AllRows(page.tables)[r] /= <<>>
     /\ AllRows(page.tables)[r][1].text =
          TableLabel(_extract_language(page), InfoSystemKeyField[key])}

\* The text next to the label in the last of these rows, converted.
KeyValue(page, key) ==
  LET r == CHOOSE i \in KeyRows(page, key) : \A j \in KeyRows(page, key) : j <= i
  IN IF key = ROOM_HUMIDITY_KEY
       THEN _convert_percentage(AllRows(page.tables)[r][2].text)
       ELSE _convert_temperature(AllRows(page.tables)[r][2].text)

\* The page of the scenario: no language marker, the two temperature rows.
TwoTemperaturesPage ==
  HtmlPage(<<>>, << << ValueRow(ENGLISH_LABELS["ACTUAL TEMPERATURE 1"], RoomTemperatureText),
                       ValueRow(ENGLISH_LABELS["OUTSIDE TEMPERATURE"],
                                OutsideTemperatureText) >> >>)

\* The part of C16 that holds whenever the extractor returns.
InfoSystemResultMatchesRows ==
  /\ \A key \in DOMAIN InfoSystemKeyField :
       /\ key \in DOMAIN ret.value <=> KeyRows(call.args[1], key) /= {}
       /\ key \in DOMAIN ret.value => ret.value[key] = KeyValue(call.args[1], key)
  /\ DOMAIN ret.value \subseteq DOMAIN InfoSystemKeyField
  /\ call.args[1] = TwoTemperaturesPage =>
       ret.value = (ROOM_TEMPERATURE_KEY :> Float(233, 1)
                    @@ OUTSIDE_TEMPERATURE_KEY :> Float(51, 1))

\* C16: on a system-info page in an implemented language the extractor
\* returns a mapping that has a key exactly when the page has a row whose
\* first cell is the label of the key's field, with the converted text of
\* the next cell as its value; the page with only the two temperature rows
\* and no marker gives exactly room_temperature and outside_temperature.
C16_InfoSystemKeysIffLabelRows ==
  (call.fn = "_extract_info_system" /\ ret /= NotCalled
     /\ _extract_language(call.args[1]) \in ImplementedLanguages) =>
    /\ ret.ok
    /\ InfoSystemResultMatchesRows

\* A text shaped like a MAC address: twelve hexadecimal digits, each of
\* which may be followed by one colon.
IsMacShaped(s) ==
  /\ s /= <<>>
  /\ \A i \in 1..Len(s) : s[i] \in HexDigits \cup {":"}
  /\ s[1] /= ":"
  /\ \A i \in 1..(Len(s) - 1) : ~(s[i] = ":" /\ s[i + 1] = ":")
  /\ Cardinality({i \in 1..Len(s) : s[i] /= ":"}) = 12

\* The MAC-shaped tokens of a text, each as <<first, last>> position.
MacTokens(text) ==
  {t \in (1..Len(text)) \X (1..Len(text)) :
     t[1] <= t[2] /\ IsMacShaped(SubSeq(text, t[1], t[2]))}

\* The first of them: the leftmost, and the longest that starts there.
FirstMacToken(text) ==
  CHOOSE t \in MacTokens(text) :
    \A u \in MacTokens(text) : t[1] < u[1] \/ (t[1] = u[1] /\ u[2] <= t[2])

\* C17: _extract_profile_network always returns a mapping; it holds, as
\* mac_address, the first MAC-shaped token of the page's text, and has no
\* mac_address key when the text has no such token.  The text
\* "MAC: AA:BB:CC:DD:EE:FF" gives "AA:BB:CC:DD:EE:FF".
C17_FirstMacAddressOrNone ==
  (call.fn = "_extract_profile_network" /\ ret /= NotCalled) =>
    /\ ret.ok
    /\ MacTokens(call.args[1].text) = {} => ret.value = EmptyDict
    /\ MacTokens(call.args[1].text) /= {} =>
         /\ DOMAIN ret.value = {MAC_ADDRESS_KEY}
         /\ ret.value[MAC_ADDRESS_KEY] =
              SubSeq(call.args[1].text, FirstMacToken(call.args[1].text)[1],
                     FirstMacToken(call.args[1].text)[2])
    /\ call.args[1].text = MacPageText =>
         ret.value[MAC_ADDRESS_KEY] =
           <<"A", "A", ":", "B", "B", ":", "C", "C", ":", "D", "D", ":", "E", "E", ":", "F", "F">>

C17_Witness ==
  /\ call.fn = "_extract_profile_network"
  /\ call.args[1].text = TwoMacsPageText
  /\ ret /= NotCalled
  /\ ret.ok
  /\ ret.value[MAC_ADDRESS_KEY] =
       <<"a", "a", ":", "b", "b", ":", "c", "c", ":", "d", "d", ":", "e", "e", ":", "f", "f">>

\* The text next to the label in the last row of the table that has the
\* label in its first cell and a second cell; "None" without such a row.
VersionPart(table, label) ==
  LET rows == {r \in 1..Len(table) : Len(table[r]) >= 2 /\ table[r][1].text = label}
  IN IF rows = {} THEN <<"N", "o", "n", "e">>
     ELSE table[CHOOSE r \in rows : \A q \in rows : q <= r][2].text

\* The tables of the page headed by the literal "ISG".
IsgTables(page) == {t \in 1..Len(page.tables) : HeadedBy(page.tables[t], <<"I", "S", "G">>)}

\* The version string the (last) ISG table of the page writes.
VersionWritten(page) ==
  LET table == page.tables[CHOOSE t \in IsgTables(page) : \A u \in IsgTables(page) : u <= t]
      language == _extract_language(page)
  IN VersionPart(table, TableLabel(language, "MAJOR_VERSION")) \o <<".">>
       \o VersionPart(table, TableLabel(language, "MINOR_VERSION")) \o <<".">>
       \o VersionPart(table, TableLabel(language, "REVISION"))

\* The part of C18 that holds whenever the extractor returns.
VersionMatchesIsgTable ==
  /\ IsgTables(call.args[1]) = {} => ret.value = EmptyDict
  /\ IsgTables(call.args[1]) /= {} =>
       /\ DOMAIN ret.value = {ATTR_SW_VERSION}
       /\ ret.value[ATTR_SW_VERSION] = VersionWritten(call.args[1])

\* C18: on a system-diagnosis page (in an implemented language) the
\* extractor returns a mapping whose version is read only from the table
\* headed "ISG", as the texts next to the major-version, minor-version and
\* revision labels joined with "."; without an "ISG" table the mapping has
\* no version key.
C18_VersionFromIsgTable ==
  (call.fn = "_extract_diagnosis_system" /\ ret /= NotCalled
     /\ _extract_language(call.args[1]) \in ImplementedLanguages) =>
    /\ ret.ok
    /\ VersionMatchesIsgTable

\* Whether two values of a snapshot or of a sensor (numbers, booleans,
\* texts, None) are the same value.
SameValue(a, b) == ToString(a) = ToString(b)

\* Every sensor shows what the snapshot in coordinator.data holds for its
\* key, and None for a key the snapshot lacks.
SensorsShowSnapshot ==
  \A key \in DOMAIN sensors : SameValue(sensors[key], DictGet(data, key))

\* No sensor shows a value for a key that the latest snapshot lacks.
NoStaleValue ==
  \A key \in DOMAIN sensors \ DOMAIN data : sensors[key] = None

\* C19: once a poll succeeded, each sensor's value is the value the
\* snapshot of the latest successful poll holds for the sensor's key, and
\* None when the snapshot lacks the key; a value of an earlier snapshot is
\* never shown for a key the latest snapshot lacks.
C19_SensorsShowLatestSnapshot ==
  data /= None => SensorsShowSnapshot /\ NoStaleValue

\* The frame of the operation o when it is called.
Called(o) == Frame(OpPages[o], <<>>, EmptyDict, NotCalled)

\* The frame the operation reaches from frame f when its requests produce
\* the given answers, one after the other.
RECURSIVE RunOn(_, _, _)
RunOn(o, f, produced) ==
  IF produced = <<>> \/ f.outcome /= NotCalled THEN f
  ELSE RunOn(o, AfterPage(o, f, PageScrape(Head(f.todo), Head(produced))),
             Tail(produced))

\* C20: no operation changes the client's _host or _session, and what
\* async_fetch_all returns or raises is determined by what its own requests
\* produced, whatever was called before: two calls served the same pages
\* end the same way.
C20_FetchAllDependsOnlyOnServedPages ==
  /\ client = NewClient
  /\ (Finished /\ op = "async_fetch_all") =>
       outcome = RunOn(op, Called(op), answers).outcome

\* async_fetch_all returned a snapshot of four served pages, called after
\* an earlier call had returned.
C20_Witness ==
  /\ Finished
  /\ op = "async_fetch_all"
  /\ outcome.ok
  /\ previous = "returned"
  /\ Len(answers) = Len(FetchAllPages)

\* The request of a scrape call failed: it raised, timed out, or was
\* answered with an error status.
RequestFailed(o) == o.kind /= "response" \/ o.status >= 400

\* The exception of the network or of aiohttp behind a failed request: what
\* the request raised, the TimeoutError of the expired timeout, or the
\* ClientResponseError of raise_for_status.
UnderlyingException(o) ==
  CASE o.kind = "timeout" -> Exc("TimeoutError", <<>>, None)
    [] o.kind = "raise" -> o.exc
    [] OTHER -> Exc("aiohttp.ClientResponseError", <<"HTTP error status">>, None)

\* C21: every error that leaves the transport layer for a failed request
\* is of the authentication, communication or generic kind and carries, as
\* its cause, the exception of the network or of aiohttp behind the failure.
C21_TransportErrorsCarryNetworkCause ==
  (call.fn = "scrape" /\ ret /= NotCalled /\ RequestFailed(call.args[2])) =>
    /\ ~ret.ok
    /\ IsSubclass(ret.exc.type, StiebelEltronScrapingClientError)
    /\ ret.exc.cause /= None
    /\ ret.exc.cause = UnderlyingException(call.args[2])

\* The page of kind k matched against the labels of the given language.
MatchedIn(k, page, language) ==
  CASE k = "info_system" -> InfoSystemRows(AllRows(page.tables), language, EmptyDict)
    [] k = "info_heatpump" -> ForTables(InfoHeatpumpTable, page.tables, language, EmptyDict)
    [] k = "diagnosis_heat_pump_status" ->
         ForTables(HeatPumpStatusTable, page.tables, language,
                   _extract_diagnosis_heat_pump_status(ErrorPage).value)
    [] k = "diagnosis_system_status" ->
         ForTables(SystemStatusTable, page.tables, language,
                   _extract_diagnosis_system_status(ErrorPage).value)

\* The device answered request i of the operation called last with a page.
ServedPage(i) == answers[i].kind = "response" /\ answers[i].status = 200

\* C22: every page async_fetch_all fetches is matched against the labels of
\* the language detected on that very page, whatever language the pages
\* fetched before it (in the same call or in earlier calls) were in.
C22_LanguageDetectedPerPage ==
  op = "async_fetch_all" =>
    /\ \A i \in 1..Len(extracted) :
         /\ ServedPage(i)
         /\ Return(extracted[i]) =
              MatchedIn(FetchAllPages[i], answers[i].page,
                        _extract_language(answers[i].page))
    /\ (answers /= <<>> /\ ServedPage(Len(answers))) =>
         pageResult = MatchedIn(FetchAllPages[Len(answers)], answers[Len(answers)].page,
                                _extract_language(answers[Len(answers)].page))

\* A snapshot was returned whose first page was in German and whose second
\* page was in English, each with a value matched in its own language.
C22_Witness ==
  /\ Finished
  /\ op = "async_fetch_all"
  /\ outcome.ok
  /\ previous = "returned"
  /\ _extract_language(answers[1].page) = "DEUTSCH"
  /\ _extract_language(answers[2].page) = "ENGLISH"
  /\ OUTSIDE_TEMPERATURE_KEY \in DOMAIN outcome.value
  /\ HEATING_KEY \in DOMAIN outcome.value

\* For each key of the heat-pump info page: the field id of the header of
\* its table and the field id of its row.
InfoHeatpumpKeySource ==
     HEATING_KEY :> [header |-> "AMOUNT OF HEAT", row |-> "VD HEATING DAY"]
  @@ TOTAL_HEATING_KEY :> [header |-> "AMOUNT OF HEAT", row |-> "VD HEATING TOTAL"]
  @@ POWER_CONSUMPTION_KEY :> [header |-> "POWER CONSUMPTION", row |-> "VD HEATING DAY"]
  @@ TOTAL_POWER_CONSUMPTION_KEY :>
       [header |-> "POWER CONSUMPTION", row |-> "VD HEATING TOTAL"]
  @@ COMPRESSOR_STARTS_KEY :> [header |-> "STARTS", row |-> "COMPRESSOR"]

\* The tables of the page headed by the label of the key's header field.
KeyTables(page, key) ==
  {t \in 1..Len(page.tables) :
     HeadedBy(page.tables[t],
              TableLabel(_extract_language(page), InfoHeatpumpKeySource[key].header))}

\* What the table gives for the key: the converted text next to the label
\* of the key's row field, in the first row that has the label and a second
\* cell; None without such a row.
TableValue(table, language, key) ==
  LET label == TableLabel(language, InfoHeatpumpKeySource[key].row)
      rows == {r \in 1..Len(table) : Len(table[r]) >= 2 /\ table[r][1].text = label}
  IN IF rows = {} THEN None
     ELSE IF key = COMPRESSOR_STARTS_KEY
       THEN _convert_number(table[CHOOSE r \in rows : \A q \in rows : r <= q][2].text)
     ELSE _convert_energy(table[CHOOSE r \in rows : \A q \in rows : r <= q][2].text)

\* C23: whenever the heat-pump info extractor returns, its mapping has a
\* key exactly when the page has a table headed by the label of the key's
\* table, and the key's value is read from the key's row of that table (the
\* last one so headed), in whatever order the tables come.
C23_HeatpumpValuesFromTheirTable ==
  (call.fn = "_extract_info_heatpump" /\ ret /= NotCalled /\ ret.ok) =>
    /\ DOMAIN ret.value \subseteq DOMAIN InfoHeatpumpKeySource
    /\ \A key \in DOMAIN InfoHeatpumpKeySource :
         /\ key \in DOMAIN ret.value <=> KeyTables(call.args[1], key) /= {}
         /\ key \in DOMAIN ret.value =>
              SameValue(ret.value[key],
                        TableValue(call.args[1].tables[
                                     CHOOSE t \in KeyTables(call.args[1], key) :
                                       \A u \in KeyTables(call.args[1], key) : u <= t],
                                   _extract_language(call.args[1]), key))

\* The power-consumption table came before the amount-of-heat table, and
\* each key got the value of its own table.
C23_Witness ==
  /\ call.fn = "_extract_info_heatpump"
  /\ ret /= NotCalled
  /\ ret.ok
  /\ Len(call.args[1].tables) = 2
  /\ HeadedBy(call.args[1].tables[1], ENGLISH_LABELS["POWER CONSUMPTION"])
  /\ HeadedBy(call.args[1].tables[2], ENGLISH_LABELS["AMOUNT OF HEAT"])
  /\ DOMAIN ret.value = {HEATING_KEY, TOTAL_HEATING_KEY, POWER_CONSUMPTION_KEY,
                         TOTAL_POWER_CONSUMPTION_KEY}
  /\ ret.value[HEATING_KEY] = _convert_energy(HeatingDayText)
  /\ ret.value[POWER_CONSUMPTION_KEY] = _convert_energy(PowerDayText)
  /\ ret.value[HEATING_KEY] /= ret.value[POWER_CONSUMPTION_KEY]

\* The error was raised by the handler for aiohttp.ClientResponseError of a
\* single-page operation.
RaisedByResponseErrorHandler(r) ==
  /\ ~r.ok
  /\ r.exc.msg /= <<>>
  /\ Head(r.exc.msg) = "Failed to connect to "

\* C24: the request wrapper fails exactly for a failed request, and then
\* with the client's scraping error or a subtype of it, never with a raw
\* aiohttp.ClientResponseError; the single-page operation around it passes
\* that error on as it is, and its handler for aiohttp.ClientResponseError
\* is never entered, whatever the request or the extraction produced.
C24_OnlyScrapingErrorsLeaveWrapper ==
  (call.fn = "scrape" /\ ret /= NotCalled) =>
    /\ RequestFailed(call.args[2]) <=> ~_api_wrapper(call.args[2]).ok
    /\ RequestFailed(call.args[2]) =>
         /\ IsSubclass(_api_wrapper(call.args[2]).exc.type, StiebelEltronScrapingClientError)
         /\ ~Catches({"aiohttp.ClientResponseError"}, _api_wrapper(call.args[2]).exc)
         /\ ret = _api_wrapper(call.args[2])
    /\ ~RaisedByResponseErrorHandler(ret)
    /\ ~ret.ok => ~Catches({"aiohttp.ClientResponseError"}, ret.exc)

\* A request answered with status 404: raise_for_status raised the
\* ClientResponseError, which left as the cause of a communication error.
C24_Witness ==
  /\ call.fn = "scrape"
  /\ call.args[2].kind = "response"
  /\ call.args[2].status = 404
  /\ ret /= NotCalled
  /\ ~ret.ok
  /\ ret.exc.type = StiebelEltronScrapingClientCommunicationError
  /\ ret.exc.cause.type = "aiohttp.ClientResponseError"

\* The error code the form shows for a scraping error, by its kind.
ErrorCode(exc) ==
  CASE exc.type = StiebelEltronScrapingClientAuthenticationError -> "auth"
    [] exc.type = StiebelEltronScrapingClientCommunicationError -> "connection"
    [] exc.type = StiebelEltronScrapingClientError -> "unknown"

\* The network-profile page answered has a MAC address.
MacRetrieved(o) ==
  /\ o.kind = "response"
  /\ o.status = 200
  /\ MacTokens(o.page.text) /= {}

\* C25: the user step creates an entry only after async_test_connect
\* succeeded and then a MAC address was retrieved from the network-profile
\* page, in that order; when one of the two fails, the failure is a scraping
\* error, no entry is created and the form is shown again with the code of
\* the error's kind ("auth", "connection", "unknown"); a page without MAC
\* address gives "unknown".  (No request makes the client raise the
\* authentication kind, see C1: the code "auth" is never shown.)
C25_EntryOnlyAfterConnectAndMac ==
  (call.fn = "async_step_user" /\ ret /= NotCalled /\ call.args[1] /= None) =>
    /\ ret.value.type = "create_entry" =>
         /\ async_test_connect(call.args[2]).ok
         /\ MacRetrieved(call.args[3])
         /\ ret.value.awaited = <<"async_test_connect", "async_get_mac_address">>
    /\ ~async_test_connect(call.args[2]).ok =>
         /\ ret.value.type = "form"
         /\ ret.value.awaited = <<"async_test_connect">>
         /\ ret.value.base = ErrorCode(async_test_connect(call.args[2]).exc)
    /\ (async_test_connect(call.args[2]).ok /\ ~MacRetrieved(call.args[3])) =>
         /\ ret.value.type = "form"
         /\ ret.value.awaited = <<"async_test_connect", "async_get_mac_address">>
         /\ ret.value.base =
              IF async_get_mac_address(call.args[3]).ok THEN "unknown"
              ELSE ErrorCode(async_get_mac_address(call.args[3]).exc)

\* The root page was accepted and the network-profile request failed with
\* the communication kind: no entry, the form with "connection".
C25_Witness ==
  /\ call.fn = "async_step_user"
  /\ ret /= NotCalled
  /\ async_test_connect(call.args[2]).ok
  /\ call.args[3] = TimedOut
  /\ ret.value.type = "form"
  /\ ret.value.base = "connection"
  /\ ret.value.awaited = <<"async_test_connect", "async_get_mac_address">>

\* C26: whenever the sensor entities are constructed, device_data has been
\* filled by a successful async_get_device_info and has the mac_address
\* key, and the construction does not fail.
C26_EntitiesBuiltWithMacAddress ==
  platform /= NotCalled =>
    /\ device_data /= None
    /\ MAC_ADDRESS_KEY \in DOMAIN device_data
    /\ platform.ok
====
